---- MODULE Spec2Model ----
(***************************************************************************)
(* go-letterboxd: the pagination-driven collector streams of user.go       *)
(* (StreamWatched, StreamList, StreamWatchList, StreamDiary), their        *)
(* consumers (SlurpFilms, SlurpDiary, loopFilmC) and the batch multiplexer *)
(* of film.go (StreamBatch).                                               *)
(*                                                                         *)
(* Goroutines are processes with a program counter; an unbuffered channel  *)
(* send is a rendezvous: one step that needs the sender at its send        *)
(* statement and the receiver in its select.                               *)
(***************************************************************************)
EXTENDS Integers, Sequences, FiniteSets, TLC

\* client.go: const maxPages = 50, the default of Client.MaxConcurrentPages.
maxPages == 50

\* Bounds of the model.
MaxPages == 4
MaxItems == 2
MaxLimit == 2
MaxEntries == 1
BatchMaxPages == 3
BatchMaxItems == 1

VARIABLES
    kind,        \* "films": StreamWatched/StreamList/StreamWatchList; "diary": StreamDiary
    consumer,    \* who reads the caller's channels: "slurp" (SlurpFilms/SlurpDiary),
                 \* "drain", or "resend" (the loop of Diary / GetWatchedIMDBIDs)
    limit,       \* Client.MaxConcurrentPages
    cpc,         \* position of the collector goroutine
    cidx,        \* index of the range loop over firstFilms / lastFilms
    totalPages,  \* pagination.TotalPages of page 1 (0: pagination is nil)
    panicking,   \* the collector goroutine is unwinding a panic
    pageLen,     \* items extracted from each fetched page (-1: none)
    failed,      \* pages whose fetch returned an error
    reqCount,    \* number of requests made for each page
    mpc,         \* position of the goroutine of each middle page
    midx,        \* index of the range loop over pfilms of each middle page
    wg,          \* the sync.WaitGroup counter
    spawnI,      \* loop variable i of the goroutine-spawning loop
    crashed,     \* the process died of an unrecovered panic
    log,         \* history of the stream's item and done channels
    cons,        \* the consumer: "running", "returned", or "resend" (at `dc <- err`)
    ret,         \* the consumer's accumulated items
    retErr,      \* the error the consumer returned: "none", "nil", "err"
    bpc,         \* position of StreamBatch ("off": no batch is running)
    opts,        \* FilmBatchOpts: the lengths of Watched, List, WatchList
    bcat,        \* category StreamBatch is iterating (1 watched, 2 list, 3 watchlist)
    bidx,        \* index in the slice of that category
    subNo,       \* number of sub-streams started so far
    subLog,      \* <<category, index>> of each sub-stream started, in order
    rpc,         \* position of loopFilmC
    rfilm,       \* the film loopFilmC holds
    out,         \* history of the shared filmsC and done channels
    orphans,     \* sub-streams left behind by loopFilmC before they returned
    produced,    \* items extracted by the page fetches that succeeded so far
    films,       \* the films EnhanceFilm / EnhanceFilmList works on (the caller's FilmSet)
    films0,      \* the same films as the caller passed them
    full,        \* what f.Get returned for each film
    lookups,     \* number of f.Get calls made for each film
    eres,        \* what EnhanceFilm returned for each film: "none", "nil", "err"
    gpc,         \* position of the call / goroutine working on each film
    guard,       \* number of tokens in the guard channel of EnhanceFilmList
    ewg,         \* the sync.WaitGroup counter of EnhanceFilmList
    epc,         \* position of EnhanceFilmList ("off", "direct": EnhanceFilm called directly)
    espawn,      \* number of goroutines EnhanceFilmList has started
    eret,        \* what EnhanceFilmList returned: "none", "nil"
    pentry,      \* the extractor that is running: "off", "detector", "userfilms", "people"
    ppc,         \* its position
    pcons,       \* the paginationers consulted so far, in order
    pag,         \* the *Pagination in hand (NilP: nil)
    perr,        \* the error in hand: "none", "nil" or the error's text
    pitems,      \* number of items the extractor found on the page (-1: none extracted)
    farg,        \* a function called on its own: its name and its arguments
    fres,        \* what that call returned (NoRes: it has not returned)
    frame,       \* the local variables of a List / WatchList call that is running
    pcalls       \* the EnhanceFilmList calls of the middle-page goroutines

streamVars == <<kind, cpc, cidx, totalPages, panicking, pageLen, failed, reqCount,
                mpc, midx, wg, spawnI, log>>
consVars == <<consumer, cons, ret, retErr>>
batchVars == <<bpc, opts, bcat, bidx, subNo, subLog, rpc, rfilm, out, orphans>>
enhVars == <<films, films0, full, lookups, eres, gpc, guard, ewg, epc, espawn, eret>>
pagVars == <<pentry, ppc, pcons, pag, perr, pitems>>
fnVars == <<farg, fres>>
runVars == <<frame, pcalls>>
auxVars == <<enhVars, pagVars, fnVars, runVars>>
vars == <<streamVars, consVars, batchVars, limit, crashed, produced, enhVars, pagVars,
          fnVars, runVars>>

\* A nil *Pagination.
NilP == [CurrentPage |-> -1, NextPage |-> -1, TotalPages |-> -1, TotalItems |-> -1,
         ItemsPerPage |-> -1, IsLast |-> FALSE]

\* No EnhanceFilm / EnhanceFilmList call is running.
EnhOff ==
    /\ films = <<>> /\ films0 = <<>> /\ full = <<>> /\ lookups = <<>> /\ eres = <<>>
    /\ gpc = <<>> /\ guard = 0 /\ ewg = 0 /\ epc = "off" /\ espawn = 0 /\ eret = "none"

\* No function is called on its own.
NoCall == [fn |-> "none"]
NoRes == [fn |-> "none"]
FnOff == farg = NoCall /\ fres = NoRes

\* No List / WatchList call is running and no middle page is being enhanced.
NoFrame == [pc |-> "none"]
RunOff == frame = NoFrame /\ pcalls = <<>>

\* No extractor is running.
PagOff ==
    /\ pentry = "off" /\ ppc = "off" /\ pcons = <<>> /\ pag = NilP /\ perr = "none"
    /\ pitems = -1

Pages == 1..MaxPages
NoFilm == [ch |-> "none", sub |-> 0, page |-> 0, idx |-> 0, val |-> "none"]
Item(s, p, k) == [ch |-> "item", sub |-> s, page |-> p, idx |-> k, val |-> "film"]
Done(v) == [ch |-> "done", sub |-> 0, page |-> 0, idx |-> 0, val |-> v]

InBatch == bpc # "off"
\* The page count and page size a fetch may report.
PageBound == IF InBatch THEN BatchMaxPages ELSE MaxPages
ItemBound == IF InBatch THEN BatchMaxItems ELSE MaxItems

RECURSIVE SelectSeq2(_, _)
SelectSeq2(s, ch) ==
    IF s = <<>> THEN <<>>
    ELSE IF Head(s).ch = ch THEN <<Head(s)>> \o SelectSeq2(Tail(s), ch)
         ELSE SelectSeq2(Tail(s), ch)

Items(s) == SelectSeq2(s, "item")
Dones(s) == SelectSeq2(s, "done")

(***************************************************************************)
(* The receiving side of the stream's channels.                            *)
(***************************************************************************)

\* SlurpFilms / SlurpDiary are in their select loop; a draining caller always is.
ConsumerReady == consumer = "drain" \/ cons = "running"

\* Somebody is ready to receive from the channels the collector was given.
StreamRecvReady == IF InBatch THEN rpc = "select" ELSE ConsumerReady

\* case film := <-filmC: ret = append(ret, film)
SlurpItem(it) ==
    /\ ret' = IF consumer \in {"slurp", "resend"} THEN Append(ret, it) ELSE ret
    /\ UNCHANGED <<consumer, cons, retErr>>

\* Variant: on an error the consumer returns what it has collected with it.
SlurpDoneMut(v) ==
    /\ cons' = IF consumer = "slurp" THEN "returned"
               ELSE IF consumer = "resend" THEN (IF v = "nil" THEN "returned" ELSE "resend")
               ELSE cons
    /\ retErr' = IF consumer = "slurp" \/ (consumer = "resend" /\ v = "nil") THEN v ELSE retErr
    /\ UNCHANGED <<consumer, ret>>

\* case err := <-errorC: if err != nil { return nil, err }; loop = false
\* Diary / GetWatchedIMDBIDs: if err != nil { dc <- err } else { loop = false }
SlurpDone(v) ==
    /\ cons' = IF consumer = "slurp" THEN "returned"
               ELSE IF consumer = "resend" THEN (IF v = "nil" THEN "returned" ELSE "resend")
               ELSE cons
    /\ retErr' = IF consumer = "slurp" \/ (consumer = "resend" /\ v = "nil") THEN v ELSE retErr
    /\ ret' = IF consumer = "slurp" /\ v = "err" THEN <<>> ELSE ret
    /\ UNCHANGED consumer

\* A value leaves the collector on its item channel.
RecvItem(it) ==
    /\ log' = Append(log, it)
    /\ IF InBatch
       THEN /\ rpc' = "fwdItem"
            /\ rfilm' = it
            /\ UNCHANGED <<consVars, bpc, opts, bcat, bidx, subNo, subLog, out, orphans>>
       ELSE /\ SlurpItem(it)
            /\ UNCHANGED batchVars

\* A value leaves the collector on its done channel.
RecvDone(v) ==
    /\ log' = Append(log, Done(v))
    /\ IF InBatch
       THEN /\ rpc' = IF v = "err" THEN "fwdErr" ELSE "exit"
            /\ UNCHANGED <<consVars, bpc, opts, bcat, bidx, subNo, subLog, rfilm, out, orphans>>
       ELSE /\ SlurpDone(v)
            /\ UNCHANGED batchVars

(***************************************************************************)
(* The collector goroutine.                                                *)
(***************************************************************************)

\* Variant: the middle pages are gathered right after page 1.
NextAfterFirstSkip(n) == "middle"

\* Variant: the last page is fetched whenever there is a page at all.
NextAfterFirstRefetch(n) == IF n >= 1 THEN "fetchLast" ELSE "middle"

\* Variant: the last page is fetched only when there are middle pages.
NextAfterFirstMut(n) == IF n > 2 THEN "fetchLast" ELSE "middle"

NextAfterFirst(n) == IF n > 1 THEN "fetchLast" ELSE "middle"

\* firstFilms, pagination, err := ExtractEnhancedFilmsWithPath(page 1)
CFetchFirst ==
    /\ ~crashed
    /\ UNCHANGED auxVars
    /\ cpc = "fetch1"
    /\ reqCount' = [reqCount EXCEPT ![1] = @ + 1]
    /\ \/ \E n \in 1..PageBound, len \in 0..ItemBound :
             /\ totalPages' = n
             /\ pageLen' = [pageLen EXCEPT ![1] = len]
             /\ produced' = produced + len
             /\ cpc' = IF len = 0 THEN NextAfterFirst(n) ELSE "send1"
             /\ UNCHANGED <<failed, panicking>>
       \/ /\ failed' = failed \cup {1}
          /\ IF kind = "diary"
             THEN \* extractDiaryEntryWithPath: defer dclose(resp.Body) on a nil resp
                  /\ cpc' = "deferNil"
                  /\ panicking' = TRUE
             ELSE /\ cpc' = "sendErr1"
                  /\ UNCHANGED panicking
          /\ UNCHANGED <<totalPages, pageLen, produced>>
    /\ cidx' = 1
    /\ UNCHANGED <<kind, mpc, midx, wg, spawnI, log, consVars, batchVars, limit, crashed>>

\* if err != nil { done <- err }, then the nil pagination is dereferenced
CSendErrFirst ==
    /\ ~crashed
    /\ UNCHANGED auxVars
    /\ UNCHANGED produced
    /\ cpc = "sendErr1"
    /\ StreamRecvReady
    /\ RecvDone("err")
    /\ cpc' = "deferNil"
    /\ panicking' = TRUE
    /\ UNCHANGED <<kind, cidx, totalPages, pageLen, failed, reqCount, mpc, midx, wg,
                   spawnI, limit, crashed>>

\* for _, film := range firstFilms { rchan <- film }
CSendFirst ==
    /\ ~crashed
    /\ UNCHANGED auxVars
    /\ UNCHANGED produced
    /\ cpc = "send1"
    /\ StreamRecvReady
    /\ RecvItem(Item(subNo, 1, cidx))
    /\ IF cidx = pageLen[1]
       THEN cpc' = NextAfterFirst(totalPages) /\ cidx' = 1
       ELSE cpc' = cpc /\ cidx' = cidx + 1
    /\ UNCHANGED <<kind, totalPages, panicking, pageLen, failed, reqCount, mpc, midx,
                   wg, spawnI, limit, crashed>>

\* if pagination.TotalPages > 1 { lastFilms, _, err = ExtractEnhancedFilmsWithPath(last) }
CFetchLast ==
    /\ ~crashed
    /\ UNCHANGED auxVars
    /\ cpc = "fetchLast"
    /\ reqCount' = [reqCount EXCEPT ![totalPages] = @ + 1]
    /\ \/ \E len \in 0..ItemBound :
             /\ pageLen' = [pageLen EXCEPT ![totalPages] = len]
             /\ produced' = produced + len
             /\ cpc' = IF len = 0 THEN "middle" ELSE "sendLast"
             /\ UNCHANGED <<failed, panicking>>
       \/ /\ failed' = failed \cup {totalPages}
          /\ IF kind = "diary"
             THEN /\ cpc' = "deferNil"
                  /\ panicking' = TRUE
             ELSE /\ cpc' = "sendErrLast"
                  /\ UNCHANGED panicking
          /\ UNCHANGED <<pageLen, produced>>
    /\ cidx' = 1
    /\ UNCHANGED <<kind, totalPages, mpc, midx, wg, spawnI, log, consVars, batchVars,
                   limit, crashed>>

\* if err != nil { done <- err }, and the function goes on
CSendErrLast ==
    /\ ~crashed
    /\ UNCHANGED auxVars
    /\ UNCHANGED produced
    /\ cpc = "sendErrLast"
    /\ StreamRecvReady
    /\ RecvDone("err")
    /\ cpc' = "middle"
    /\ UNCHANGED <<kind, cidx, totalPages, panicking, pageLen, failed, reqCount, mpc,
                   midx, wg, spawnI, limit, crashed>>

\* for _, film := range lastFilms { rchan <- film }
CSendLast ==
    /\ ~crashed
    /\ UNCHANGED auxVars
    /\ UNCHANGED produced
    /\ cpc = "sendLast"
    /\ StreamRecvReady
    /\ RecvItem(Item(subNo, totalPages, cidx))
    /\ IF cidx = pageLen[totalPages]
       THEN cpc' = "middle" /\ cidx' = 1
       ELSE cpc' = cpc /\ cidx' = cidx + 1
    /\ UNCHANGED <<kind, totalPages, panicking, pageLen, failed, reqCount, mpc, midx,
                   wg, spawnI, limit, crashed>>

\* if pagination.TotalPages > 2 { wg.Add(middlePageCount); ... }
CGatherMiddle ==
    /\ ~crashed
    /\ UNCHANGED auxVars
    /\ UNCHANGED produced
    /\ cpc = "middle"
    /\ IF totalPages > 2
       THEN /\ wg' = totalPages - 2
            /\ spawnI' = 2
            /\ cpc' = "spawn"
       ELSE /\ cpc' = "deferNil"
            /\ UNCHANGED <<wg, spawnI>>
    /\ UNCHANGED <<kind, cidx, totalPages, panicking, pageLen, failed, reqCount, mpc,
                   midx, log, consVars, batchVars, limit, crashed>>

\* for i := 2; i < pagination.TotalPages; i++ { go func(i int) {...}(i) }
CSpawn ==
    /\ ~crashed
    /\ UNCHANGED auxVars
    /\ UNCHANGED produced
    /\ cpc = "spawn"
    /\ mpc' = [mpc EXCEPT ![spawnI] = "start"]
    /\ spawnI' = spawnI + 1
    /\ cpc' = IF spawnI + 1 < totalPages THEN "spawn" ELSE "wait"
    /\ UNCHANGED <<kind, cidx, totalPages, panicking, pageLen, failed, reqCount, midx,
                   wg, log, consVars, batchVars, limit, crashed>>

\* wg.Wait()
CWait ==
    /\ ~crashed
    /\ UNCHANGED auxVars
    /\ UNCHANGED produced
    /\ cpc = "wait"
    /\ wg = 0
    /\ cpc' = "deferNil"
    /\ UNCHANGED <<kind, cidx, totalPages, panicking, pageLen, failed, reqCount, mpc,
                   midx, wg, spawnI, log, consVars, batchVars, limit, crashed>>

\* Variant: the deferred send reports an error when some page failed.
CDeferNilMut ==
    /\ ~crashed
    /\ UNCHANGED auxVars
    /\ UNCHANGED produced
    /\ cpc = "deferNil"
    /\ StreamRecvReady
    /\ RecvDone(IF failed # {} THEN "err" ELSE "nil")
    /\ cpc' = IF panicking THEN "panicked" ELSE "returned"
    /\ crashed' = panicking
    /\ UNCHANGED <<kind, cidx, totalPages, panicking, pageLen, failed, reqCount, mpc,
                   midx, wg, spawnI, limit>>

\* defer func() { done <- nil }(); an unrecovered panic then ends the process
CDeferNil ==
    /\ ~crashed
    /\ UNCHANGED auxVars
    /\ UNCHANGED produced
    /\ cpc = "deferNil"
    /\ StreamRecvReady
    /\ RecvDone("nil")
    /\ cpc' = IF panicking THEN "panicked" ELSE "returned"
    /\ crashed' = panicking
    /\ UNCHANGED <<kind, cidx, totalPages, panicking, pageLen, failed, reqCount, mpc,
                   midx, wg, spawnI, limit>>

(***************************************************************************)
(* The goroutine of middle page p.                                         *)
(***************************************************************************)

\* The goroutine is scheduled and issues its request.
MStart(p) ==
    /\ ~crashed
    /\ UNCHANGED auxVars
    /\ UNCHANGED produced
    /\ mpc[p] = "start"
    /\ mpc' = [mpc EXCEPT ![p] = "fetching"]
    /\ reqCount' = [reqCount EXCEPT ![p] = @ + 1]
    /\ UNCHANGED <<kind, cpc, cidx, totalPages, panicking, pageLen, failed, midx, wg,
                   spawnI, log, consVars, batchVars, limit, crashed>>

\* pfilms, _, err := ExtractEnhancedFilmsWithPath(page p); if err != nil { return }
MFetchDone(p) ==
    /\ ~crashed
    /\ UNCHANGED auxVars
    /\ mpc[p] = "fetching"
    /\ \/ \E len \in 0..ItemBound :
             /\ pageLen' = [pageLen EXCEPT ![p] = len]
             /\ produced' = produced + len
             /\ mpc' = [mpc EXCEPT ![p] = IF len = 0 THEN "done" ELSE "send"]
             /\ wg' = IF len = 0 THEN wg - 1 ELSE wg
             /\ UNCHANGED <<failed, crashed>>
       \/ /\ failed' = failed \cup {p}
          /\ mpc' = [mpc EXCEPT ![p] = "done"]
          /\ wg' = wg - 1
          \* extractDiaryEntryWithPath panics in this goroutine: the process dies
          /\ crashed' = (kind = "diary")
          /\ UNCHANGED <<pageLen, produced>>
    /\ midx' = [midx EXCEPT ![p] = 1]
    /\ UNCHANGED <<kind, cpc, cidx, totalPages, panicking, reqCount, spawnI, log,
                   consVars, batchVars, limit>>

\* Variant: the range loop over pfilms runs from the last film to the first.
MSendMut(p) ==
    /\ ~crashed
    /\ UNCHANGED auxVars
    /\ UNCHANGED produced
    /\ mpc[p] = "send"
    /\ StreamRecvReady
    /\ RecvItem(Item(subNo, p, pageLen[p] + 1 - midx[p]))
    /\ IF midx[p] = pageLen[p]
       THEN /\ mpc' = [mpc EXCEPT ![p] = "done"]
            /\ wg' = wg - 1
            /\ UNCHANGED midx
       ELSE /\ midx' = [midx EXCEPT ![p] = @ + 1]
            /\ UNCHANGED <<mpc, wg>>
    /\ UNCHANGED <<kind, cpc, cidx, totalPages, panicking, pageLen, failed, reqCount,
                   spawnI, limit, crashed>>

\* for _, film := range pfilms { rchan <- film }; defer wg.Done()
MSend(p) ==
    /\ ~crashed
    /\ UNCHANGED auxVars
    /\ UNCHANGED produced
    /\ mpc[p] = "send"
    /\ StreamRecvReady
    /\ RecvItem(Item(subNo, p, midx[p]))
    /\ IF midx[p] = pageLen[p]
       THEN /\ mpc' = [mpc EXCEPT ![p] = "done"]
            /\ wg' = wg - 1
            /\ UNCHANGED midx
       ELSE /\ midx' = [midx EXCEPT ![p] = @ + 1]
            /\ UNCHANGED <<mpc, wg>>
    /\ UNCHANGED <<kind, cpc, cidx, totalPages, panicking, pageLen, failed, reqCount,
                   spawnI, limit, crashed>>

Collector ==
    \/ CFetchFirst
    \/ CSendErrFirst
    \/ CSendFirst
    \/ CFetchLast
    \/ CSendErrLast
    \/ CSendLast
    \/ CGatherMiddle
    \/ CSpawn
    \/ CWait
    \/ CDeferNil
    \/ \E p \in 2..(MaxPages - 1) : MStart(p)
    \/ \E p \in 2..(MaxPages - 1) : MFetchDone(p)
    \/ \E p \in 2..(MaxPages - 1) : MSend(p)

\* The state of a collector that was just started with `go`.
FreshStream ==
    /\ cpc = "fetch1"
    /\ cidx = 1
    /\ totalPages = 0
    /\ panicking = FALSE
    /\ pageLen = [p \in Pages |-> -1]
    /\ failed = {}
    /\ reqCount = [p \in Pages |-> 0]
    /\ mpc = [p \in 2..(MaxPages - 1) |-> "none"]
    /\ midx = [p \in 2..(MaxPages - 1) |-> 1]
    /\ wg = 0
    /\ spawnI = 2
    /\ log = <<>>

\* go StreamWatched(ctx, user, c, done), the caller about to receive.
StartOfStream ==
    /\ kind \in {"films", "diary"}
    /\ FreshStream
    /\ crashed = FALSE
    /\ cons = "running"
    /\ ret = <<>>
    /\ retErr = "none"
    /\ bpc = "off"
    /\ opts = <<0, 0, 0>>
    /\ bcat = 0
    /\ bidx = 0
    /\ subNo = 1
    /\ subLog = <<>>
    /\ rpc = "off"
    /\ rfilm = NoFilm
    /\ out = <<>>
    /\ orphans = 0
    /\ produced = 0
    /\ EnhOff
    /\ PagOff
    /\ FnOff
    /\ RunOff

\* The client as New() builds it; the stream is read by SlurpFilms / SlurpDiary.
Init ==
    /\ limit = maxPages
    /\ consumer = "slurp"
    /\ StartOfStream

\* A client whose MaxConcurrentPages the caller has set; the stream is read by
\* SlurpFilms / SlurpDiary or by a caller that keeps receiving from both channels.
InitCaller ==
    /\ limit \in 1..MaxLimit
    /\ consumer \in {"slurp", "drain"}
    /\ StartOfStream

Next == Collector

Spec == Init /\ [][Next]_vars

SpecCaller == InitCaller /\ [][Next]_vars

(***************************************************************************)
(* StreamBatch and loopFilmC.                                              *)
(***************************************************************************)

\* Entries of category c that StreamBatch has not started yet.
Remaining(c) == IF c = bcat THEN opts[c] - bidx ELSE opts[c]
PendingCats == {c \in bcat..3 : Remaining(c) > 0}
\* Variant: the categories are taken from the last one backwards.
NextCatMut == CHOOSE c \in PendingCats : \A d \in PendingCats : c >= d

NextCat == CHOOSE c \in PendingCats : \A d \in PendingCats : c <= d

\* userFilmC := make(chan *Film); userDone := make(chan error);
\* go StreamWatched(ctx, username, userFilmC, userDone); loopFilmC(...)
BStartSub ==
    /\ ~crashed
    /\ UNCHANGED auxVars
    /\ UNCHANGED produced
    /\ bpc = "run"
    /\ rpc \in {"off", "exit"}
    /\ PendingCats # {}
    /\ bidx' = IF NextCat = bcat THEN bidx + 1 ELSE 1
    /\ bcat' = NextCat
    /\ subNo' = subNo + 1
    /\ subLog' = Append(subLog, <<bcat', bidx'>>)
    /\ rpc' = "select"
    \* a collector loopFilmC walked away from stays behind: nobody receives
    \* from its channels any more
    /\ orphans' = IF cpc \in {"none", "returned"} THEN orphans ELSE orphans + 1
    /\ cpc' = "fetch1"
    /\ cidx' = 1
    /\ totalPages' = 0
    /\ panicking' = FALSE
    /\ pageLen' = [p \in Pages |-> -1]
    /\ failed' = {}
    /\ reqCount' = [p \in Pages |-> 0]
    /\ mpc' = [p \in 2..(MaxPages - 1) |-> "none"]
    /\ midx' = [p \in 2..(MaxPages - 1) |-> 1]
    /\ wg' = 0
    /\ spawnI' = 2
    /\ log' = <<>>
    /\ UNCHANGED <<kind, consVars, bpc, opts, rfilm, out, limit, crashed>>

\* The three range loops are exhausted: StreamBatch returns into its defer.
BFinish ==
    /\ ~crashed
    /\ UNCHANGED auxVars
    /\ UNCHANGED produced
    /\ bpc = "run"
    /\ rpc \in {"off", "exit"}
    /\ PendingCats = {}
    /\ bpc' = "deferNil"
    /\ UNCHANGED <<streamVars, consVars, opts, bcat, bidx, subNo, subLog, rpc, rfilm,
                   out, orphans, limit, crashed>>

\* loopFilmC: case film := <-userFilmC: filmsC <- film
RFwdItem ==
    /\ ~crashed
    /\ UNCHANGED auxVars
    /\ UNCHANGED produced
    /\ rpc = "fwdItem"
    /\ ConsumerReady
    /\ out' = Append(out, rfilm)
    /\ SlurpItem(rfilm)
    /\ rpc' = "select"
    /\ rfilm' = NoFilm
    /\ UNCHANGED <<streamVars, bpc, opts, bcat, bidx, subNo, subLog, orphans, limit,
                   crashed>>

\* Variant: StreamBatch returns once an error was forwarded.
RFwdErrMut ==
    /\ ~crashed
    /\ UNCHANGED auxVars
    /\ UNCHANGED produced
    /\ rpc = "fwdErr"
    /\ ConsumerReady
    /\ out' = Append(out, Done("err"))
    /\ SlurpDone("err")
    /\ rpc' = "exit"
    /\ bpc' = "deferNil"
    /\ UNCHANGED <<streamVars, opts, bcat, bidx, subNo, subLog, rfilm, orphans,
                   limit, crashed>>

\* loopFilmC: case err := <-userDone: if err != nil { done <- err }; loop = false
RFwdErr ==
    /\ ~crashed
    /\ UNCHANGED auxVars
    /\ UNCHANGED produced
    /\ rpc = "fwdErr"
    /\ ConsumerReady
    /\ out' = Append(out, Done("err"))
    /\ SlurpDone("err")
    /\ rpc' = "exit"
    /\ UNCHANGED <<streamVars, bpc, opts, bcat, bidx, subNo, subLog, rfilm, orphans,
                   limit, crashed>>

\* StreamBatch: defer func() { done <- nil }()
BDeferNil ==
    /\ ~crashed
    /\ UNCHANGED auxVars
    /\ UNCHANGED produced
    /\ bpc = "deferNil"
    /\ ConsumerReady
    /\ out' = Append(out, Done("nil"))
    /\ SlurpDone("nil")
    /\ bpc' = "returned"
    /\ UNCHANGED <<streamVars, opts, bcat, bidx, subNo, subLog, rpc, rfilm, orphans,
                   limit, crashed>>

\* go StreamBatch(ctx, batchOpts, filmsC, done); SlurpFilms(filmsC, done)
InitBatch ==
    /\ kind = "films"
    /\ consumer \in {"slurp", "drain"}
    /\ limit = maxPages
    /\ cpc = "none"
    /\ cidx = 1
    /\ totalPages = 0
    /\ panicking = FALSE
    /\ pageLen = [p \in Pages |-> -1]
    /\ failed = {}
    /\ reqCount = [p \in Pages |-> 0]
    /\ mpc = [p \in 2..(MaxPages - 1) |-> "none"]
    /\ midx = [p \in 2..(MaxPages - 1) |-> 1]
    /\ wg = 0
    /\ spawnI = 2
    /\ log = <<>>
    /\ crashed = FALSE
    /\ cons = "running"
    /\ ret = <<>>
    /\ retErr = "none"
    /\ bpc = "run"
    /\ opts \in [1..3 -> 0..MaxEntries]
    /\ bcat = 1
    /\ bidx = 0
    /\ subNo = 0
    /\ subLog = <<>>
    /\ rpc = "off"
    /\ rfilm = NoFilm
    /\ out = <<>>
    /\ orphans = 0
    /\ produced = 0
    /\ EnhOff
    /\ PagOff
    /\ FnOff
    /\ RunOff

NextBatch ==
    \/ Collector
    \/ BStartSub
    \/ BFinish
    \/ RFwdItem
    \/ RFwdErr
    \/ BDeferNil

SpecBatch == InitBatch /\ [][NextBatch]_vars

\* The Go scheduler runs a goroutine that can take a step.
FairSpecBatch == SpecBatch /\ WF_vars(NextBatch)

(***************************************************************************)
(* Properties of the collector streams (checked under Spec).               *)
(***************************************************************************)

RECURSIVE SumLen(_, _)
\* Items of pages 1..n, a page that yielded nothing counting 0.
SumLen(f, n) == IF n = 0 THEN 0 ELSE (IF f[n] > 0 THEN f[n] ELSE 0) + SumLen(f, n - 1)

Occurrences(s, x) == Cardinality({i \in 1..Len(s) : s[i] = x})

MiddlePages == 2..(MaxPages - 1)
InFlight == {p \in MiddlePages : mpc[p] = "fetching"}

\* 0 for page 1, 1 for the last page, 2 for a middle page.
Rank(p) == IF p = 1 THEN 0 ELSE IF p = totalPages THEN 1 ELSE 2

\* C1: StreamWatched/StreamList/StreamWatchList, page 1 reporting N >= 1 pages and
\* no fetch failing: once the stream has returned, every page 1..N was fetched,
\* every item of every page is on the item channel exactly once, the consumer
\* holds exactly the sum of the page sizes, and the one terminal signal is nil
\* and comes last.
C1_AllItemsExactlyOnce ==
    (kind = "films" /\ cpc = "returned" /\ failed = {}) =>
        /\ totalPages >= 1
        /\ \A p \in 1..totalPages :
              /\ pageLen[p] >= 0
              /\ \A k \in 1..pageLen[p] : Occurrences(log, Item(subNo, p, k)) = 1
        /\ Len(Items(log)) = SumLen(pageLen, totalPages)
        /\ Dones(log) = <<Done("nil")>>
        /\ log[Len(log)] = Done("nil")
        /\ consumer = "slurp" =>
              /\ cons = "returned"
              /\ retErr = "nil"
              /\ ret = Items(log)

\* A clean four-page run with a shorter last page whose middle pages interleaved.
C1_Witness ==
    /\ kind = "films" /\ cpc = "returned" /\ failed = {} /\ consumer = "slurp"
    /\ totalPages > 3
    /\ pageLen[1] = 2 /\ pageLen[2] = 2 /\ pageLen[3] = 2 /\ pageLen[totalPages] = 1
    /\ Len(ret) = 7
    /\ \E i, j \in 1..Len(log) : i < j /\ log[i].page = 3 /\ log[j].page = 2

\* C2: in every run of a collector stream, page failures included, at most one
\* value is ever sent on the done channel, nothing is sent on the item channel
\* after it, and a stream that has returned has sent exactly one.
C2_OneTerminalSignal ==
    /\ Len(Dones(log)) <= 1
    /\ (Dones(log) # <<>> => log[Len(log)].ch = "done")
    /\ (cpc \in {"returned", "panicked"} => Len(Dones(log)) = 1)

\* C3: when the page-1 fetch fails, the error is the only thing the stream ever
\* sends: no item, no second value on the done channel, no further page request.
C3_FirstPageFailureAborts ==
    (1 \in failed) =>
        /\ log \in {<<>>, <<Done("err")>>}
        /\ \A p \in Pages \ {1} : reqCount[p] = 0

\* C4: StreamWatched/StreamList/StreamWatchList with more than two pages of which
\* exactly one middle page k failed: once the stream has returned, every other
\* page was requested and all its items are on the item channel exactly once,
\* nothing of page k is, and the only terminal signal is nil.
C4_MiddleFailureTolerated ==
    (kind = "films" /\ cpc = "returned" /\ \E k \in 2..(totalPages - 1) : failed = {k}) =>
        /\ \A p \in (1..totalPages) \ failed :
              /\ reqCount[p] = 1
              /\ pageLen[p] >= 0
              /\ \A k \in 1..pageLen[p] : Occurrences(log, Item(subNo, p, k)) = 1
        /\ \A i \in 1..Len(log) : log[i].ch = "item" => log[i].page \notin failed
        /\ Len(Items(log)) = SumLen(pageLen, totalPages)
        /\ Dones(log) = <<Done("nil")>>

\* Page 2 of 4 failed, page 3 delivered its items, the stream ended with nil.
C4_Witness ==
    /\ kind = "films" /\ cpc = "returned" /\ totalPages = 4 /\ failed = {2}
    /\ pageLen[1] = 2 /\ pageLen[3] = 2 /\ pageLen[4] = 1
    /\ Len(Items(log)) = 5

\* C5: the number of middle-page fetches in flight never exceeds
\* Client.MaxConcurrentPages.
C5_BoundedInFlight == Cardinality(InFlight) <= limit

\* C6: once SlurpFilms/SlurpDiary has returned, no goroutine of the stream is at
\* a send on the item channel or the done channel (where, with nobody left to
\* receive, it would stay blocked forever).
C6_StoppedConsumerBlocksNobody ==
    (consumer = "slurp" /\ cons = "returned" /\ ~crashed) =>
        /\ cpc \notin {"sendErr1", "send1", "sendErrLast", "sendLast", "deferNil"}
        /\ \A p \in MiddlePages : mpc[p] # "send"

\* C7: on the item channel every page-1 item precedes every last-page item,
\* every last-page item precedes every middle-page item, and the items of one
\* page come in extraction order.
C7_EmissionOrder ==
    \A i, j \in 1..Len(log) :
        (i < j /\ log[i].ch = "item" /\ log[j].ch = "item") =>
            /\ Rank(log[i].page) <= Rank(log[j].page)
            /\ (log[i].page = log[j].page => log[i].idx < log[j].idx)

\* First, last and two interleaved middle pages have all emitted.
C7_Witness ==
    /\ totalPages = 4
    /\ \E a, b, c, d, e \in 1..Len(log) :
          /\ a < b /\ b < c /\ c < d /\ d < e
          /\ log[a] = Item(subNo, 1, 2)
          /\ log[b] = Item(subNo, 4, 2)
          /\ log[c] = Item(subNo, 3, 1)
          /\ log[d] = Item(subNo, 2, 1)
          /\ log[e] = Item(subNo, 3, 2)

(***************************************************************************)
(* Properties of StreamBatch (checked under SpecBatch).                    *)
(***************************************************************************)

\* The entries of batchOpts in the order of the three range loops.
EntriesOf(c) == [i \in 1..opts[c] |-> <<c, i>>]
AllEntries == EntriesOf(1) \o EntriesOf(2) \o EntriesOf(3)

IsPrefix(s, t) == Len(s) <= Len(t) /\ SubSeq(t, 1, Len(s)) = s

RECURSIVE OfSub(_, _)
\* The items of s that sub-stream n produced.
OfSub(s, n) ==
    IF s = <<>> THEN <<>>
    ELSE IF Head(s).ch = "item" /\ Head(s).sub = n
         THEN <<Head(s)>> \o OfSub(Tail(s), n)
         ELSE OfSub(Tail(s), n)

ErrForwarded == \E i \in 1..Len(out) : out[i] = Done("err")

\* The current sub-stream's terminal signal was an error.
TerminalErr == Dones(log) # <<>> /\ Dones(log)[1] = Done("err")

\* C8: whatever its sub-streams do, StreamBatch sends exactly one value on the
\* shared done channel: never a second one, and exactly one once it has returned.
C8_OneBatchDone ==
    /\ Len(Dones(out)) <= 1
    /\ (bpc = "returned" => Len(Dones(out)) = 1)

\* The relay holds what the current sub-stream emitted, each item once, in order.
C9_State ==
    /\ IsPrefix(subLog, AllEntries)
    /\ (bpc \in {"deferNil", "returned"} => subLog = AllEntries)
    /\ OfSub(out, subNo) \o (IF rpc = "fwdItem" THEN <<rfilm>> ELSE <<>>) = Items(log)
    /\ \A i, j \in 1..Len(out) :
          (i < j /\ out[i].ch = "item" /\ out[j].ch = "item") =>
              /\ out[i] # out[j]
              /\ out[i].sub <= out[j].sub
    /\ (bpc = "returned" => out[Len(out)] = Done("nil"))
    /\ (bpc = "returned" /\ ~ErrForwarded) =>
          /\ Len(Items(out)) = produced
          /\ (consumer = "slurp" => Len(ret) = produced /\ retErr = "nil")

\* A sub-stream is started only when the one before it has signalled completion.
C9_Step ==
    (subNo' = subNo + 1) => (subNo = 0 \/ Dones(log) # <<>>)

C10_State ==
    /\ (rpc = "fwdErr" => TerminalErr)
    /\ (rpc = "exit" /\ TerminalErr) => ErrForwarded
    /\ ErrForwarded =>
          /\ bpc \in {"run", "deferNil", "returned"}
          /\ IsPrefix(subLog, AllEntries)
          /\ (bpc \in {"deferNil", "returned"} => subLog = AllEntries)
          /\ (bpc = "returned" => out[Len(out)] = Done("nil"))
          /\ OfSub(out, subNo) \o (IF rpc = "fwdItem" THEN <<rfilm>> ELSE <<>>) = Items(log)

Fields == {"ID", "Title", "Slug", "Target", "Year", "ExternalIDs"}
CallerFilms == [Fields -> {0, 1}]
LookupFilms == [Fields -> {0, 2}]
NoSlug == [f \in Fields |-> 0]
SlugOnly == [f \in Fields |-> IF f = "Slug" THEN 1 ELSE 0]
FilmPage == [f \in Fields |-> 2]

\* guard := make(chan struct{}, 5)
GuardSize == 5

InList == epc # "direct"

\* What f.Get returns: nothing yet, an error, or a film.
NoLookup == [st |-> "none", film |-> NoSlug]
FailedLookup == [st |-> "fail", film |-> NoSlug]
Got(f) == [st |-> "ok", film |-> f]
LookupResults ==
    {FailedLookup} \cup {Got(f) : f \in IF InList THEN {FilmPage} ELSE LookupFilms}

\* Variant: a field that is already populated is reset.
MergeToggle(film, fullFilm) ==
    [f \in Fields |->
        IF f \in {"Year", "Title", "ExternalIDs", "ID"}
        THEN (IF film[f] = 0 THEN fullFilm[f] ELSE 0)
        ELSE film[f]]

\* if film.Year == 0 { film.Year = fullFilm.Year } ... if film.ID == "" { ... }
MergeMut(film, fullFilm) ==
    [f \in Fields |->
        IF f \in {"Title", "ExternalIDs", "ID"} /\ film[f] = 0 THEN fullFilm[f]
        ELSE IF f = "Year" THEN fullFilm[f]
        ELSE film[f]]

Merge(film, fullFilm) ==
    [f \in Fields |->
        IF f \in {"Year", "Title", "ExternalIDs", "ID"} /\ film[f] = 0 THEN fullFilm[f]
        ELSE film[f]]

\* if film.Slug == "" { return errors.New("Film has no slug. ...") }
HasSlugMut(film) == TRUE

HasSlug(film) == film["Slug"] # 0

\* guard <- struct{}{}: the send blocks while the buffer is full
GuardFreeMut == TRUE

GuardFree == guard < GuardSize

\* EnhanceFilm up to its call of f.Get; in EnhanceFilmList the goroutine first
\* takes a guard token, and gives it back and calls wg.Done() when EnhanceFilm
\* has returned.
EnhanceFilmCall(i) ==
    /\ epc \in {"direct", "spawn"}
    /\ gpc[i] = "new"
    /\ InList => GuardFree
    /\ IF HasSlug(films[i])
       THEN /\ lookups' = [lookups EXCEPT ![i] = @ + 1]
            /\ gpc' = [gpc EXCEPT ![i] = "get"]
            /\ guard' = IF InList THEN guard + 1 ELSE guard
            /\ UNCHANGED <<eres, ewg>>
       ELSE /\ eres' = [eres EXCEPT ![i] = "err"]
            /\ gpc' = [gpc EXCEPT ![i] = "done"]
            /\ ewg' = IF InList THEN ewg - 1 ELSE ewg
            /\ UNCHANGED <<lookups, guard>>
    /\ UNCHANGED <<films, films0, full, epc, espawn, eret>>
    /\ UNCHANGED <<streamVars, consVars, batchVars, limit, crashed, produced, pagVars,
                   fnVars, runVars>>

\* Variant: the goroutine keeps its guard token when EnhanceFilm returned an error.
EnhanceFilmLookupMut(i) ==
    /\ epc \in {"direct", "spawn"}
    /\ gpc[i] = "get"
    /\ \E r \in LookupResults :
          /\ full' = [full EXCEPT ![i] = r]
          /\ IF r.st = "fail"
             THEN /\ eres' = [eres EXCEPT ![i] = "err"]
                  /\ UNCHANGED films
             ELSE /\ eres' = [eres EXCEPT ![i] = "nil"]
                  /\ films' = [films EXCEPT ![i] = Merge(@, r.film)]
    /\ gpc' = [gpc EXCEPT ![i] = "done"]
    /\ guard' = IF InList /\ eres'[i] = "nil" THEN guard - 1 ELSE guard
    /\ ewg' = IF InList THEN ewg - 1 ELSE ewg
    /\ UNCHANGED <<films0, lookups, epc, espawn, eret>>
    /\ UNCHANGED <<streamVars, consVars, batchVars, limit, crashed, produced, pagVars,
                   fnVars, runVars>>

\* fullFilm, err := f.Get(ctx, film.Slug) returns, and EnhanceFilm with it
EnhanceFilmLookup(i) ==
    /\ epc \in {"direct", "spawn"}
    /\ gpc[i] = "get"
    /\ \E r \in LookupResults :
          /\ full' = [full EXCEPT ![i] = r]
          /\ IF r.st = "fail"
             THEN /\ eres' = [eres EXCEPT ![i] = "err"]
                  /\ UNCHANGED films
             ELSE /\ eres' = [eres EXCEPT ![i] = "nil"]
                  /\ films' = [films EXCEPT ![i] = Merge(@, r.film)]
    /\ gpc' = [gpc EXCEPT ![i] = "done"]
    /\ guard' = IF InList THEN guard - 1 ELSE guard
    /\ ewg' = IF InList THEN ewg - 1 ELSE ewg
    /\ UNCHANGED <<films0, lookups, epc, espawn, eret>>
    /\ UNCHANGED <<streamVars, consVars, batchVars, limit, crashed, produced, pagVars,
                   fnVars, runVars>>

\* wg.Add(len(*films))
EAdd ==
    /\ epc = "start"
    /\ ewg' = Len(films)
    /\ epc' = "spawn"
    /\ UNCHANGED <<films, films0, full, lookups, eres, gpc, guard, espawn, eret>>
    /\ UNCHANGED <<streamVars, consVars, batchVars, limit, crashed, produced, pagVars,
                   fnVars, runVars>>

\* for _, film := range *films { go func(film *Film) {...}(film) }
ESpawn ==
    /\ epc = "spawn"
    /\ espawn < Len(films)
    /\ espawn' = espawn + 1
    /\ gpc' = [gpc EXCEPT ![espawn + 1] = "new"]
    /\ UNCHANGED <<films, films0, full, lookups, eres, guard, ewg, epc, eret>>
    /\ UNCHANGED <<streamVars, consVars, batchVars, limit, crashed, produced, pagVars,
                   fnVars, runVars>>

\* wg.Wait(); return nil
EWaitMut ==
    /\ epc = "spawn"
    /\ espawn = Len(films)
    /\ epc' = "returned"
    /\ eret' = "nil"
    /\ UNCHANGED <<films, films0, full, lookups, eres, gpc, guard, ewg, espawn>>
    /\ UNCHANGED <<streamVars, consVars, batchVars, limit, crashed, produced, pagVars,
                   fnVars, runVars>>

EWait ==
    /\ epc = "spawn"
    /\ espawn = Len(films)
    /\ ewg = 0
    /\ epc' = "returned"
    /\ eret' = "nil"
    /\ UNCHANGED <<films, films0, full, lookups, eres, gpc, guard, ewg, espawn>>
    /\ UNCHANGED <<streamVars, consVars, batchVars, limit, crashed, produced, pagVars,
                   fnVars, runVars>>

\* No stream and no batch is running.
CollectorOff ==
    /\ kind = "films"
    /\ consumer = "slurp"
    /\ limit = maxPages
    /\ cpc = "none"
    /\ cidx = 1
    /\ totalPages = 0
    /\ panicking = FALSE
    /\ pageLen = [p \in Pages |-> -1]
    /\ failed = {}
    /\ reqCount = [p \in Pages |-> 0]
    /\ mpc = [p \in 2..(MaxPages - 1) |-> "none"]
    /\ midx = [p \in 2..(MaxPages - 1) |-> 1]
    /\ wg = 0
    /\ spawnI = 2
    /\ log = <<>>
    /\ crashed = FALSE
    /\ cons = "running"
    /\ ret = <<>>
    /\ retErr = "none"
    /\ bpc = "off"
    /\ opts = <<0, 0, 0>>
    /\ bcat = 0
    /\ bidx = 0
    /\ subNo = 0
    /\ subLog = <<>>
    /\ rpc = "off"
    /\ rfilm = NoFilm
    /\ out = <<>>
    /\ orphans = 0
    /\ produced = 0

\* The state of the calls on a FilmSet fs that have not begun.
EnhFresh(fs) ==
    /\ films = fs
    /\ films0 = fs
    /\ full = [i \in 1..Len(fs) |-> NoLookup]
    /\ lookups = [i \in 1..Len(fs) |-> 0]
    /\ eres = [i \in 1..Len(fs) |-> "none"]
    /\ guard = 0
    /\ ewg = 0
    /\ espawn = 0
    /\ eret = "none"

\* err := sc.Film.EnhanceFilm(ctx, film), for any film the caller may pass
InitEnhance ==
    /\ CollectorOff
    /\ PagOff
    /\ FnOff
    /\ RunOff
    /\ epc = "direct"
    /\ gpc = <<"new">>
    /\ \E f \in CallerFilms : EnhFresh(<<f>>)

NextEnhance ==
    \/ \E i \in 1..Len(films) : EnhanceFilmCall(i)
    \/ \E i \in 1..Len(films) : EnhanceFilmLookup(i)

SpecEnhance == InitEnhance /\ [][NextEnhance]_vars

\* The FilmSets of the model: up to MaxFilms films that have a slug and nothing
\* else, as the page previews make them; none, one or all of them lack the slug.
MaxFilms == 6
FilmSets ==
    {[i \in 1..n |-> IF i \in S THEN NoSlug ELSE SlugOnly] :
        <<n, S>> \in {x \in (0..MaxFilms) \X SUBSET (1..MaxFilms) :
                         x[2] \in {{}, 1..x[1]} \cup {{j} : j \in 1..x[1]}}}

\* err := sc.Film.EnhanceFilmList(ctx, &films)
InitEnhanceList ==
    /\ CollectorOff
    /\ PagOff
    /\ FnOff
    /\ RunOff
    /\ epc = "start"
    /\ \E fs \in FilmSets :
          /\ EnhFresh(fs)
          /\ gpc = [i \in 1..Len(fs) |-> "none"]

NextEnhanceList ==
    \/ EAdd
    \/ ESpawn
    \/ EWait
    \/ \E i \in 1..Len(films) : EnhanceFilmCall(i)
    \/ \E i \in 1..Len(films) : EnhanceFilmLookup(i)

SpecEnhanceList == InitEnhanceList /\ [][NextEnhanceList]_vars

(***************************************************************************)
(* Properties of EnhanceFilmList (checked under SpecEnhanceList) and of    *)
(* EnhanceFilm (checked under SpecEnhance).                                *)
(***************************************************************************)
InLookup == {i \in 1..Len(films) : gpc[i] = "get"}

\* C11: EnhanceFilmList returns only after the EnhanceFilm call of every film
\* has returned, and what it returns is nil whether or not those calls failed.
C11_ReturnsAfterAllWithNil ==
    (epc = "returned") =>
        /\ \A i \in 1..Len(films) : gpc[i] = "done" /\ eres[i] \in {"nil", "err"}
        /\ eret = "nil"

C11_Witness ==
    /\ epc = "returned" /\ eret = "nil"
    /\ \E i, j \in 1..Len(films) : eres[i] = "err" /\ eres[j] = "nil"

\* C12: within one call of EnhanceFilmList at most 5 lookups are in flight.
C12_AtMostFiveInFlight == Cardinality(InLookup) <= 5

C12_Witness ==
    /\ Cardinality(InLookup) = 5
    /\ \E i \in 1..Len(films) : gpc[i] = "new" /\ films[i]["Slug"] # 0

\* C13: a field the caller populated keeps its value through EnhanceFilm,
\* whatever the lookup returns.
C13_PopulatedFieldsKept ==
    \A i \in 1..Len(films) : \A f \in Fields :
        films0[i][f] # 0 => films[i][f] = films0[i][f]

C13_Witness ==
    /\ epc = "direct" /\ gpc[1] = "done" /\ eres[1] = "nil"
    /\ \E f \in {"Year", "Title", "ExternalIDs", "ID"} :
          films0[1][f] = 1 /\ full[1].film[f] = 2 /\ films[1][f] = 1

\* C14: after a successful EnhanceFilm every field that was unset before the
\* call holds the value the lookup returned.
C14_UnsetFieldsFilled ==
    \A i \in 1..Len(films) :
        (gpc[i] = "done" /\ eres[i] = "nil") =>
            \A f \in Fields : films0[i][f] = 0 => films[i][f] = full[i].film[f]

\* C15: without a slug EnhanceFilm returns an error, makes no lookup and leaves
\* the film as it was; when the lookup fails it returns an error and leaves the
\* film as it was.
C15_ErrorsLeaveFilmUnchanged ==
    \A i \in 1..Len(films) :
        /\ films0[i]["Slug"] = 0 =>
              /\ lookups[i] = 0
              /\ films[i] = films0[i]
              /\ gpc[i] = "done" => eres[i] = "err"
        /\ full[i].st = "fail" => (eres[i] = "err" /\ films[i] = films0[i])
        /\ eres[i] = "err" => (films0[i]["Slug"] = 0 \/ full[i].st = "fail")

C15_Witness ==
    /\ epc = "direct" /\ gpc[1] = "done" /\ eres[1] = "err"
    /\ films0[1]["Slug"] = 0 /\ films0[1]["Title"] = 1 /\ lookups[1] = 0

(***************************************************************************)
(* Last-page failure of a collector stream (checked under Spec).           *)
(***************************************************************************)
\* C16: when the last-page fetch fails (totalPages > 1) no error is sent on the
\* done channel, the middle pages are still fetched and emitted, and the stream
\* ends with nil as its only terminal signal.
C16_LastPageFailureSilent ==
    (kind = "films" /\ totalPages > 1 /\ failed = {totalPages}) =>
        /\ \A i \in 1..Len(log) : log[i] # Done("err")
        /\ cpc = "returned" =>
              /\ Dones(log) = <<Done("nil")>>
              /\ \A p \in 2..(totalPages - 1) :
                    /\ reqCount[p] = 1
                    /\ \A k \in 1..pageLen[p] : Occurrences(log, Item(subNo, p, k)) = 1

(***************************************************************************)
(* The pagination detector (pagination.go) and the extractors that hand a  *)
(* Pagination to their caller (ExtractUserFilms, ExtractPeople in user.go).*)
(*                                                                         *)
(* A page is read through the elements the code selects from it:           *)
(*   li of div.paginate-pages: its classes and its text;                   *)
(*   p.ui-block-heading: whether "There are (\d+)" matches, and the count; *)
(*   div.pagination: its first a.next and its first a.previous.            *)
(***************************************************************************)
MaxLis == 2
MaxPageNo == 2
MaxHeadings == 1
MaxDivs == 1
MaxItemPages == 2

\* paginationFromBlockHeading: ItemsPerPage: 72
ItemsPerPage == 72

\* &Pagination{}
ZeroP == [CurrentPage |-> 0, NextPage |-> 0, TotalPages |-> 0, TotalItems |-> 0,
          ItemsPerPage |-> 0, IsLast |-> FALSE]

\* The text of an li: the ellipsis, some other text strconv.Atoi rejects, or a number.
Lis == [cur : BOOLEAN, page : BOOLEAN, text : {"ellipsis", "word"}, n : {0}]
         \cup [cur : BOOLEAN, page : BOOLEAN, text : {"number"}, n : 0..MaxPageNo]

\* A heading the regexp does not match, one whose digits overflow an int, or a count.
Counts == {c \in 0..(MaxItemPages * ItemsPerPage) :
              c % ItemsPerPage \in {0, 1, ItemsPerPage - 1}}
Headings == [kind : {"nomatch", "overflow"}, n : {0}] \cup [kind : {"count"}, n : Counts]

\* The first a.next or a.previous of a div.pagination: "absent" (no such element),
\* "other" (its text is not "Next" / "Previous"), "skip" (no href, or an href whose
\* last path segment is not a number), "bad" (an href url.Parse rejects) or "page".
Links == [kind : {"absent", "other", "skip", "bad"}, n : {0}]
           \cup [kind : {"page"}, n : 0..(MaxPageNo + 1)]
Divs == [next : Links, prev : Links]

SeqsUpTo(S, n) == UNION {[1..k -> S] : k \in 0..n}

\* func (p *Pagination) complete()
complete(p) ==
    IF p.CurrentPage = p.TotalPages
    THEN [p EXCEPT !.IsLast = TRUE]
    ELSE [p EXCEPT !.NextPage = p.CurrentPage + 1]

\* func (p *Pagination) SetTotalItems(i int)
SetTotalItems(p, i) ==
    IF p.ItemsPerPage # 0
    THEN [p EXCEPT !.TotalItems = i, !.TotalPages = (i \div p.ItemsPerPage) + 1]
    ELSE [p EXCEPT !.TotalItems = i]

\* func parsePaginateCurrent(s *goquery.Selection, p *Pagination)
parsePaginateCurrent(li, p) ==
    IF li.cur /\ li.text # "ellipsis" /\ li.text = "number"
    THEN [p EXCEPT !.CurrentPage = li.n, !.TotalPages = li.n]
    ELSE p

\* func parsePaginatePage(s *goquery.Selection, p *Pagination)
parsePaginatePage(li, p) ==
    IF li.page /\ li.text # "ellipsis" /\ li.text = "number"
    THEN [p EXCEPT !.TotalPages = li.n]
    ELSE p

\* doc.Find("div.paginate-pages").Find("li").Each(...)
RECURSIVE EachLi(_, _)
EachLi(lis, p) ==
    IF lis = <<>> THEN p
    ELSE EachLi(Tail(lis), parsePaginatePage(Head(lis), parsePaginateCurrent(Head(lis), p)))

\* func (p *Pagination) parseDivPaginationNext(s *goquery.Selection)
parseDivPaginationNext(d, p) ==
    IF d.next.kind = "page"
    THEN [p EXCEPT !.CurrentPage = d.next.n - 1,
                   !.NextPage = IF p.NextPage = 0 THEN d.next.n ELSE p.NextPage]
    ELSE p

\* func (p *Pagination) parseDivPaginationPrevious(s *goquery.Selection)
parseDivPaginationPrevious(d, p) ==
    IF d.prev.kind = "page" THEN [p EXCEPT !.CurrentPage = d.prev.n + 1] ELSE p

\* func (p *Pagination) parseDivPagination(doc *goquery.Document)
RECURSIVE parseDivPagination(_, _)
parseDivPagination(ds, p) ==
    IF ds = <<>> THEN p
    ELSE parseDivPagination(Tail(ds),
             parseDivPaginationPrevious(Head(ds), parseDivPaginationNext(Head(ds), p)))

\* doc.Find("p.ui-block-heading").Each(...)
RECURSIVE EachHeading(_, _, _)
EachHeading(hs, ds, p) ==
    IF hs = <<>> THEN p
    ELSE EachHeading(Tail(hs), ds,
             IF Head(hs).kind = "count"
             THEN parseDivPagination(ds, SetTotalItems(p, Head(hs).n))
             ELSE p)

\* mustParseURL panics on an href url.Parse rejects; pageWithURL is reached for the
\* links of every div.pagination once a heading gives a count.
PageWithURLPanics(hs, ds) ==
    /\ \E i \in 1..Len(hs) : hs[i].kind = "count"
    /\ \E j \in 1..Len(ds) : ds[j].next.kind = "bad" \/ ds[j].prev.kind = "bad"

\* func paginationFromDivPaginatePages(doc) (before paginationIfCurrent)
paginationFromDivPaginatePages(lis) == EachLi(lis, ZeroP)

\* func paginationFromBlockHeading(doc) (before paginationIfCurrent)
paginationFromBlockHeading(hs, ds) ==
    EachHeading(hs, ds, [ZeroP EXCEPT !.ItemsPerPage = ItemsPerPage])

\* func paginationIfCurrent(p *Pagination) (*Pagination, error)
paginationIfCurrent(p) ==
    IF p.CurrentPage = 0
    THEN [p |-> NilP, err |-> "no pagination found"]
    ELSE [p |-> p, err |-> "nil"]

\* var paginationers = []paginationer{paginationFromDivPaginatePages, paginationFromBlockHeading}
paginationersMut == <<"heading", "pages">>

paginationers == <<"pages", "heading">>

\* func hasNext(r io.Reader) bool: the text of the first a.next of the div.paginations
RECURSIVE hasNext(_)
hasNext(ds) ==
    IF ds = <<>> THEN FALSE
    ELSE IF Head(ds).next.kind = "absent" THEN hasNext(Tail(ds))
    ELSE Head(ds).next.kind # "other"

\* extractHasNextWithBytes(body): hasNext on the bytes.
extractHasNextWithBytes(ds) == hasNext(ds)

\* ExtractPaginationWithReader(r): ExtractPagination on the buffered page.
ExtractPaginationWithReader(p, e) == [p |-> p, err |-> e]

\* The single-page Pagination of ExtractUserFilms.
SinglePageMut == [ZeroP EXCEPT !.CurrentPage = 1, !.NextPage = 1, !.TotalPages = 2,
                               !.IsLast = TRUE]

SinglePage == [ZeroP EXCEPT !.CurrentPage = 1, !.NextPage = 1, !.TotalPages = 1,
                            !.IsLast = TRUE]

otherVars == <<streamVars, consVars, batchVars, limit, produced, enhVars, fnVars,
               runVars>>

\* p, err = pa(doc) gave p0 before its paginationIfCurrent; on success
\* p.complete(); return p, nil
Adopt(k, p0) ==
    LET r == paginationIfCurrent(p0) IN
    /\ pcons' = Append(pcons, [by |-> k, cur |-> p0.CurrentPage])
    /\ IF r.err = "nil"
       THEN pag' = complete(r.p) /\ perr' = "nil" /\ ppc' = "detected"
       ELSE pag' = NilP /\ perr' = r.err /\ ppc' = "detect"
    /\ UNCHANGED crashed

\* paginationWithDoc: one turn of `for _, pa := range paginationers`
PConsult ==
    /\ ~crashed
    /\ ppc = "detect"
    /\ Len(pcons) < Len(paginationers)
    /\ LET k == paginationers[Len(pcons) + 1] IN
         \/ /\ k = "pages"
            /\ \E lis \in SeqsUpTo(Lis, MaxLis) :
                  Adopt(k, paginationFromDivPaginatePages(lis))
         \/ /\ k = "heading"
            /\ \E hs \in SeqsUpTo(Headings, MaxHeadings), ds \in SeqsUpTo(Divs, MaxDivs) :
                  IF PageWithURLPanics(hs, ds)
                  THEN /\ crashed' = TRUE
                       /\ ppc' = "panicked"
                       /\ UNCHANGED <<pcons, pag, perr>>
                  ELSE Adopt(k, paginationFromBlockHeading(hs, ds))
    /\ UNCHANGED <<pentry, pitems, otherVars>>

\* paginationWithDoc: return nil, errors.New("no pagination found"), which
\* ExtractPaginationWithDoc turns into its own error
PNoPagination ==
    /\ ~crashed
    /\ ppc = "detect"
    /\ Len(pcons) = Len(paginationers)
    /\ pag' = NilP
    /\ perr' = "could not extract pagination, no current page"
    /\ ppc' = "detected"
    /\ UNCHANGED <<pentry, pcons, pitems, crashed, otherVars>>

\* ExtractUserFilms / ExtractDiaryEntries: goquery.NewDocumentFromReader; in
\* ExtractUserFilms also previews := previewsWithDoc(doc)
PRead ==
    /\ ~crashed
    /\ pentry \in {"userfilms", "diary"}
    /\ ppc = "read"
    /\ \/ /\ perr' = "read error"
          /\ ppc' = "done"
          /\ UNCHANGED pitems
       \/ /\ IF pentry = "userfilms"
             THEN \E n \in 0..MaxItems : pitems' = n
             ELSE UNCHANGED pitems
          /\ ppc' = "detect"
          /\ UNCHANGED perr
    /\ UNCHANGED <<pentry, pcons, pag, crashed, otherVars>>

\* ExtractUserFilms: if err != nil { pagination = &Pagination{1, 1, 1, IsLast} };
\* return previews, pagination, nil
PUserFilmsReturn ==
    /\ ~crashed
    /\ pentry = "userfilms"
    /\ ppc = "detected"
    /\ LET r == ExtractPaginationWithReader(pag, perr) IN
         pag' = IF r.err # "nil" THEN SinglePage ELSE r.p
    /\ perr' = "nil"
    /\ ppc' = "done"
    /\ UNCHANGED <<pentry, pcons, pitems, crashed, otherVars>>

\* ExtractDiaryEntries: if err != nil { return nil, nil, err };
\* entries := u.diaryEntriesWithDoc(doc); return entries, pagination, nil
PDiaryReturn ==
    /\ ~crashed
    /\ pentry = "diary"
    /\ ppc = "detected"
    /\ IF perr # "nil" THEN UNCHANGED pitems ELSE \E n \in 0..MaxItems : pitems' = n
    /\ ppc' = "done"
    /\ UNCHANGED <<pentry, pcons, pag, perr, crashed, otherVars>>

\* ExtractPeople
PPeople ==
    /\ ~crashed
    /\ pentry = "people"
    /\ ppc = "read"
    /\ \/ /\ perr' = "read error"
          /\ UNCHANGED <<pag, pitems>>
       \/ /\ \E ds \in SeqsUpTo(Divs, MaxDivs) :
                pag' = [ZeroP EXCEPT !.IsLast = ~extractHasNextWithBytes(ds)]
          /\ \E n \in 0..MaxItems : pitems' = n
          /\ perr' = "nil"
    /\ ppc' = "done"
    /\ UNCHANGED <<pentry, pcons, crashed, otherVars>>

\* An extractor is called on a page.
InitPagination ==
    /\ CollectorOff
    /\ EnhOff
    /\ FnOff
    /\ RunOff
    /\ pentry \in {"detector", "userfilms", "diary", "people"}
    /\ ppc = IF pentry = "detector" THEN "detect" ELSE "read"
    /\ pcons = <<>>
    /\ pag = NilP
    /\ perr = "none"
    /\ pitems = -1

NextPagination ==
    \/ PConsult
    \/ PNoPagination
    \/ PRead
    \/ PUserFilmsReturn
    \/ PDiaryReturn
    \/ PPeople

SpecPagination == InitPagination /\ [][NextPagination]_vars

\* The extractor has returned to its caller.
Returned == (pentry = "detector" /\ ppc = "detected") \/ ppc = "done"
\* It handed a Pagination to the caller.
Handed == Returned /\ pag # NilP

(***************************************************************************)
(* Properties of the detector and the extractors (checked under            *)
(* SpecPagination).                                                        *)
(***************************************************************************)
ConsultedBy == [k \in 1..Len(pcons) |-> pcons[k].by]
DetectionFailed == Len(pcons) = 2 /\ \A k \in 1..2 : pcons[k].cur = 0

\* C17: in every Pagination handed to a caller, NextPage is 0 when CurrentPage
\* equals TotalPages and CurrentPage + 1 when CurrentPage is below TotalPages.
C17_NextPageMath ==
    Handed =>
        /\ pag.CurrentPage = pag.TotalPages => pag.NextPage = 0
        /\ pag.CurrentPage < pag.TotalPages => pag.NextPage = pag.CurrentPage + 1

\* C18: in every Pagination the detector, ExtractUserFilms and ExtractPeople
\* produce, IsLast is true exactly when CurrentPage equals TotalPages.
C18_IsLastIffOnLastPage ==
    (Handed /\ pentry \in {"detector", "userfilms", "people"}) =>
        (pag.IsLast <=> pag.CurrentPage = pag.TotalPages)

\* C19: ExtractUserFilms returns no error because the page has no pagination
\* markup: once the items are extracted it returns them with a Pagination of
\* CurrentPage 1, TotalPages 1, IsLast true, for which a collector fetches no
\* page beyond the first.
C19_SinglePageFallback ==
    (pentry = "userfilms" /\ ppc = "done" /\ pitems >= 0) =>
        /\ perr = "nil"
        /\ pag # NilP
        /\ DetectionFailed =>
              /\ pag.CurrentPage = 1 /\ pag.TotalPages = 1 /\ pag.IsLast
              /\ NextAfterFirst(pag.TotalPages) # "fetchLast"
              /\ 2..(pag.TotalPages - 1) = {}

C19_Witness ==
    /\ pentry = "userfilms" /\ ppc = "done" /\ pitems = MaxItems
    /\ DetectionFailed /\ perr = "nil" /\ pag.TotalPages = 1

\* C20: the page-list strategy is consulted first and the heading strategy
\* second, the second only when the first yields no CurrentPage; the result is
\* that of the first strategy that yields one, and when none does it is a nil
\* Pagination with the error "could not extract pagination, no current page".
C20_StrategyOrder ==
    /\ IsPrefix(ConsultedBy, <<"pages", "heading">>)
    /\ \A k \in 1..(Len(pcons) - 1) : pcons[k].cur = 0
    /\ ppc = "detected" =>
          IF \E k \in 1..Len(pcons) : pcons[k].cur # 0
          THEN /\ perr = "nil"
               /\ pag # NilP
               /\ pag.CurrentPage = pcons[Len(pcons)].cur
          ELSE /\ Len(pcons) = 2
               /\ pag = NilP
               /\ perr = "could not extract pagination, no current page"

C20_Witness ==
    /\ ppc = "detected" /\ perr = "nil"
    /\ Len(pcons) = 2 /\ pcons[1].cur = 0 /\ pcons[2].cur # 0

-----------------------------------------------------------------------------
\* Functions called on their own: Filmography and its validation, sendRequest,
\* the page-list strategy and the next / previous links of a div.pagination.

callVars == <<streamVars, consVars, batchVars, limit, produced, enhVars, pagVars,
              runVars>>

\* Has the called function returned (or panicked)?
Called(f) == farg.fn = f /\ fres # NoRes

\* var Professions = []string{"actor", "director", "producer", "writer"}
Professions == <<"actor", "director", "producer", "writer">>

\* func stringInSlice(a string, list []string) bool
stringInSlice(a, list) == \E i \in 1..Len(list) : list[i] = a

\* func (f *FilmographyOpt) Validate() error
ValidateMut(f) ==
    IF f.Person = "" THEN "person is required"
    ELSE IF f.Profession = "" THEN "profession is required"
    ELSE "nil"

Validate(f) ==
    IF f.Person = "" THEN "person is required"
    ELSE IF f.Profession = "" THEN "profession is required"
    ELSE IF ~stringInSlice(f.Profession, Professions) THEN "profession must be one of"
    ELSE "nil"

\* The FilmographyOpt values a caller passes.
FilmographyOpts ==
    [Person : {"", "sofia-coppola"},
     Profession : {"", "actor", "director", "producer", "writer", "wait-staff"}]

\* The status codes of the responses c.client.Do hands back.
StatusCodes == {101, 200, 204, 299, 300, 304, 399, 400, 404, 429, 500}

\* func checkResponse(res *http.Response) error
checkResponse(status) ==
    IF status < 200 \/ status >= 400 THEN "status" ELSE "nil"

\* What one sendRequest meets: whether Do fails, the status of the response,
\* whether reading the body, the extractor and closing the body fail.
Exchanges ==
    [do : {"nil", "err"}, status : StatusCodes, read : {"nil", "err"},
     extract : {"nil", "err"}, close : {"nil", "err"}]

\* func (c *Client) sendRequest(req, extractor) (*PageData, *Response, error)
\* getFromCache hands back the nil *PageData it passed to Cache.Get, so the
\* request is always sent.
sendRequest(x) ==
    LET base == [fn |-> "sendRequest", requests |-> 1, response |-> x.do = "nil",
                 status |-> IF x.do = "nil" THEN x.status ELSE 0,
                 extractor |-> 0, data |-> "nil", err |-> "nil", panicked |-> FALSE]
        body ==
            IF x.do = "err" THEN [base EXCEPT !.err = "do"]
            ELSE IF checkResponse(x.status) # "nil"
                 THEN [base EXCEPT !.err = checkResponse(x.status)]
            ELSE IF x.read = "err" THEN [base EXCEPT !.err = "read"]
            ELSE IF x.extract = "err" THEN [base EXCEPT !.extractor = 1, !.err = "extract"]
            ELSE [base EXCEPT !.extractor = 1, !.data = "page"]
    IN  \* defer dclose(res.Body): panics when Close fails
        IF x.do = "nil" /\ x.close = "err"
        THEN [body EXCEPT !.data = "nil", !.err = "nil", !.panicked = TRUE]
        ELSE body

\* A call of sendRequest.
SendRequestCall ==
    /\ ~crashed
    /\ farg.fn = "sendRequest" /\ fres = NoRes
    /\ \E x \in Exchanges :
          /\ fres' = sendRequest(x)
          /\ crashed' = sendRequest(x).panicked
    /\ UNCHANGED <<farg, callVars>>

\* func (f *FilmServiceOp) Filmography(ctx, opt) (FilmSet, error)
\* validated: the error of opt.Validate(); requests: the requests sent, one for
\* the filmography page and one for every lookup of the two EnhanceFilmList calls.
FilmographyCall ==
    /\ ~crashed
    /\ farg.fn = "Filmography" /\ fres = NoRes
    /\ LET v == Validate(farg.opt)
           ret0 == [fn |-> "Filmography", validated |-> v, requests |-> 0,
                    films |-> -1, err |-> v, panicked |-> FALSE]
       IN IF v # "nil"
          THEN fres' = ret0 /\ UNCHANGED crashed
          ELSE \/ \* http.NewRequest rejects the URL
                  /\ fres' = [ret0 EXCEPT !.err = "request"]
                  /\ UNCHANGED crashed
               \/ \E x \in Exchanges :
                     LET r == sendRequest(x) IN
                     IF r.panicked
                     THEN /\ fres' = [ret0 EXCEPT !.requests = 1, !.panicked = TRUE]
                          /\ crashed' = TRUE
                     ELSE IF r.err # "nil"
                     THEN /\ fres' = [ret0 EXCEPT !.requests = 1, !.err = r.err]
                          /\ UNCHANGED crashed
                     ELSE \E n \in 0..MaxFilms : \E k \in 0..n :
                          \* k of the n films carry a slug: each is looked up by
                          \* both EnhanceFilmList calls, which return nil
                          /\ fres' = [ret0 EXCEPT !.requests = 1 + 2 * k,
                                                  !.films = n, !.err = "nil"]
                          /\ UNCHANGED crashed
    /\ UNCHANGED <<farg, callVars>>

MaxSegs == 2
MaxSlashes == 2

\* One element of a path between two slashes: a number strconv.Atoi accepts or
\* some other text; Empty is the empty string.
Segments == {[t |-> "word", n |-> 0]} \cup [t : {"number"}, n : 0..(MaxPageNo + 1)]
Empty == [t |-> "empty", n |-> 0]

\* An href: whether url.Parse accepts it, the elements of its path and the
\* slashes that end it ("/films/page/2/" is <<films, page, 2>> and one slash).
Hrefs == [ok : BOOLEAN, segs : SeqsUpTo(Segments, MaxSegs), slashes : 0..MaxSlashes]
NoHref == [ok |-> TRUE, segs |-> <<>>, slashes |-> 0]

\* func mustParseURL(u string) *url.URL: strings.TrimSuffix(u, "/"), url.Parse,
\* panic on its error. Gives the slashes left at the end of the path.
mustParseURL(h) ==
    [panicked |-> ~h.ok, slashes |-> IF h.slashes > 0 THEN h.slashes - 1 ELSE 0]

\* func pageWithURL(u string) (int, error)
pageWithURL(h) ==
    LET url == mustParseURL(h)
        parts == <<Empty>> \o h.segs \o [i \in 1..url.slashes |-> Empty]
        last == parts[Len(parts)]
    IN IF url.panicked THEN [panicked |-> TRUE, page |-> 0, err |-> "nil"]
       ELSE IF last.t = "number" THEN [panicked |-> FALSE, page |-> last.n, err |-> "nil"]
       ELSE [panicked |-> FALSE, page |-> 0, err |-> "atoi"]

\* s.Find("a.next").First() or s.Find("a.previous").First(): whether there is
\* such an element, its text, and its href attribute.
Anchors ==
    {[exists |-> FALSE, text |-> "other", hasHref |-> FALSE, href |-> NoHref]}
      \cup [exists : {TRUE}, text : {"Next", "Previous", "other"},
            hasHref : {FALSE}, href : {NoHref}]
      \cup [exists : {TRUE}, text : {"Next", "Previous", "other"},
            hasHref : {TRUE}, href : Hrefs]

\* What parseDivPaginationNext (label "Next") and parseDivPaginationPrevious
\* (label "Previous") make of the link: nlink.Text() == label, nlink.Attr("href"),
\* pageWithURL(href).
LinkOf(a, label) ==
    IF ~a.exists THEN [kind |-> "absent", n |-> 0]
    ELSE IF a.text # label THEN [kind |-> "other", n |-> 0]
    ELSE IF ~a.hasHref THEN [kind |-> "skip", n |-> 0]
    ELSE IF pageWithURL(a.href).panicked THEN [kind |-> "bad", n |-> 0]
    ELSE IF pageWithURL(a.href).err # "nil" THEN [kind |-> "skip", n |-> 0]
    ELSE [kind |-> "page", n |-> pageWithURL(a.href).page]

\* The Pagination the link functions are called on by parseDivPagination: after
\* SetTotalItems, and after an earlier div has set NextPage.
Starts ==
    LET p0 == SetTotalItems([ZeroP EXCEPT !.ItemsPerPage = ItemsPerPage], ItemsPerPage + 1)
        absent == [kind |-> "absent", n |-> 0]
    IN {p0, parseDivPaginationNext([next |-> [kind |-> "page", n |-> 2],
                                    prev |-> absent], p0)}

\* A call of p.parseDivPaginationNext(s)
ParseDivPaginationNextCall ==
    /\ ~crashed
    /\ farg.fn = "parseDivPaginationNext" /\ fres = NoRes
    /\ LET l == LinkOf(farg.a, "Next")
           d == [next |-> l, prev |-> [kind |-> "absent", n |-> 0]]
       IN IF l.kind = "bad"
          THEN /\ fres' = [fn |-> farg.fn, p |-> farg.p, panicked |-> TRUE]
               /\ crashed' = TRUE
          ELSE /\ fres' = [fn |-> farg.fn, p |-> parseDivPaginationNext(d, farg.p),
                           panicked |-> FALSE]
               /\ UNCHANGED crashed
    /\ UNCHANGED <<farg, callVars>>

\* A call of p.parseDivPaginationPrevious(s)
ParseDivPaginationPreviousCall ==
    /\ ~crashed
    /\ farg.fn = "parseDivPaginationPrevious" /\ fres = NoRes
    /\ LET l == LinkOf(farg.a, "Previous")
           d == [next |-> [kind |-> "absent", n |-> 0], prev |-> l]
       IN IF l.kind = "bad"
          THEN /\ fres' = [fn |-> farg.fn, p |-> farg.p, panicked |-> TRUE]
               /\ crashed' = TRUE
          ELSE /\ fres' = [fn |-> farg.fn, p |-> parseDivPaginationPrevious(d, farg.p),
                           panicked |-> FALSE]
               /\ UNCHANGED crashed
    /\ UNCHANGED <<farg, callVars>>

\* A call of paginationFromDivPaginatePages(doc)
PaginatePagesCall ==
    /\ ~crashed
    /\ farg.fn = "paginationFromDivPaginatePages" /\ fres = NoRes
    /\ LET r == paginationIfCurrent(paginationFromDivPaginatePages(farg.lis)) IN
          fres' = [fn |-> farg.fn, p |-> r.p, err |-> r.err, panicked |-> FALSE]
    /\ UNCHANGED <<crashed, farg, callVars>>

\* func (f *FilmServiceOp) EnhanceFilm(ctx, film) error, r being what f.Get
\* returns: the film after the call, the error, and the lookups made.
EnhanceFilm(film, r) ==
    IF ~HasSlug(film)
    THEN [film |-> film, err |-> "Film has no slug", lookups |-> 0]
    ELSE IF r.st = "fail"
    THEN [film |-> film, err |-> "failed to get film for enhancement", lookups |-> 1]
    ELSE [film |-> Merge(film, r.film), err |-> "nil", lookups |-> 1]

\* What f.Get may return for a slug.
FixedLookups == {FailedLookup} \cup {Got(f) : f \in LookupFilms}

\* Filmography: EnhanceFilmList(ctx, &partialFilms), then EnhanceFilmList(ctx, &films)
\* on the same films; for one of them the two EnhanceFilm calls, f.Get giving
\* the same result both times.
EnhanceFilmTwiceCall ==
    /\ ~crashed
    /\ farg.fn = "EnhanceFilm" /\ fres = NoRes
    /\ LET once == EnhanceFilm(farg.film, farg.full)
           twice == EnhanceFilm(once.film, farg.full)
       IN fres' = [fn |-> farg.fn, once |-> once, twice |-> twice, panicked |-> FALSE]
    /\ UNCHANGED <<crashed, farg, callVars>>

InitCalls ==
    /\ CollectorOff
    /\ EnhOff
    /\ PagOff
    /\ RunOff
    /\ fres = NoRes
    /\ \/ \E o \in FilmographyOpts : farg = [fn |-> "Filmography", opt |-> o]
       \/ farg = [fn |-> "sendRequest"]
       \/ \E film \in CallerFilms, r \in FixedLookups :
             farg = [fn |-> "EnhanceFilm", film |-> film, full |-> r]
       \/ \E lis \in SeqsUpTo(Lis, MaxLis) :
             farg = [fn |-> "paginationFromDivPaginatePages", lis |-> lis]
       \/ \E f \in {"parseDivPaginationNext", "parseDivPaginationPrevious"} :
             \E a \in Anchors, q \in Starts : farg = [fn |-> f, a |-> a, p |-> q]

NextCalls ==
    \/ FilmographyCall
    \/ SendRequestCall
    \/ EnhanceFilmTwiceCall
    \/ PaginatePagesCall
    \/ ParseDivPaginationNextCall
    \/ ParseDivPaginationPreviousCall

SpecCalls == InitCalls /\ [][NextCalls]_vars

\* C21: Filmography with an empty Person, an empty Profession or a Profession
\* outside actor, director, producer, writer returns a validation error and has
\* sent no request; with a non-empty Person and an allowed Profession the
\* validation gives nil.
C21_ValidationBeforeRequest ==
    Called("Filmography") =>
       LET o == farg.opt
           allowed == o.Profession \in {"actor", "director", "producer", "writer"}
       IN IF o.Person = "" \/ o.Profession = "" \/ ~allowed
          THEN /\ fres.validated # "nil"
               /\ fres.err = fres.validated
               /\ fres.requests = 0
               /\ fres.films = -1
          ELSE fres.validated = "nil"

C21_Witness ==
    /\ Called("Filmography")
    /\ farg.opt.Person # "" /\ farg.opt.Profession = "wait-staff"
    /\ fres.err = "profession must be one of" /\ fres.requests = 0

\* C22: whenever sendRequest returns after a response whose status code is not
\* in 200..299, it returns an error, has not invoked the extractor and returns
\* no page data.
C22_Non2xxIsHardError ==
    (Called("sendRequest") /\ fres.response /\ ~fres.panicked
       /\ fres.status \notin 200..299) =>
          /\ fres.err # "nil"
          /\ fres.extractor = 0
          /\ fres.data = "nil"

-----------------------------------------------------------------------------
\* Order and number of the page requests of a collector stream.

\* go StreamWatched(...) read by SlurpFilms.
InitFilms == Init /\ kind = "films"

SpecFilms == InitFilms /\ [][Next]_vars

\* The fetch of page p has ended, with a page or with an error.
FetchCompleted(p) == pageLen[p] >= 0 \/ p \in failed

\* C23: no page after the first is requested before the page-1 fetch has
\* completed, and with totalPages > 2 no middle-page goroutine is started or
\* middle page requested before the last page was requested, its fetch has
\* completed and all its items are on the item channel.
C23_FirstLastThenMiddle ==
    /\ cpc = "fetch1" => \A p \in Pages : reqCount[p] = 0
    /\ \A p \in Pages \ {1} : reqCount[p] > 0 => (pageLen[1] >= 0 /\ p <= totalPages)
    /\ \A p \in MiddlePages :
          (mpc[p] # "none" \/ (p < totalPages /\ reqCount[p] > 0)) =>
             /\ totalPages > 2 /\ p < totalPages
             /\ reqCount[totalPages] = 1
             /\ FetchCompleted(totalPages)
             /\ \A k \in 1..pageLen[totalPages] :
                   Occurrences(log, Item(subNo, totalPages, k)) = 1

\* Middle page 2 is being fetched after both items of the last page were emitted.
C23_Witness ==
    /\ totalPages = MaxPages
    /\ mpc[2] = "fetching"
    /\ pageLen[totalPages] = MaxItems
    /\ log[Len(log)] = Item(subNo, totalPages, MaxItems)

\* C24: each page is requested at most once, a failed page exactly once; no page
\* beyond totalPages is requested, and with totalPages 1 or 2 no middle-page
\* goroutine is started.
C24_EachPageAtMostOnce ==
    /\ \A p \in Pages : reqCount[p] <= 1
    /\ \A p \in failed : reqCount[p] = 1
    /\ \A p \in Pages : (p > 1 /\ p > totalPages) => reqCount[p] = 0
    /\ totalPages \in {1, 2} => \A p \in MiddlePages : mpc[p] = "none"

\* A returned stream of MaxPages pages, a middle page of which failed.
C24_Witness ==
    /\ cpc = "returned" /\ totalPages = MaxPages
    /\ failed \cap 2..(totalPages - 1) # {}
    /\ \A p \in 1..totalPages : reqCount[p] = 1

\* C25: StreamDiary with more than two pages of which one middle page failed:
\* the program goes on, and once the stream has returned every other page was
\* requested and has all its entries on the item channel, with nil as the only
\* terminal signal.
C25_DiaryMiddleFailureTolerated ==
    (kind = "diary" /\ totalPages > 2 /\ \E k \in 2..(totalPages - 1) : failed = {k}) =>
        /\ ~crashed
        /\ cpc = "returned" =>
              /\ \A p \in (1..totalPages) \ failed :
                    /\ reqCount[p] = 1
                    /\ \A k \in 1..pageLen[p] : Occurrences(log, Item(subNo, p, k)) = 1
              /\ Dones(log) = <<Done("nil")>>

-----------------------------------------------------------------------------
\* The diary extractor on a page without pagination markup (checked under
\* SpecPagination).

\* C26: when ExtractDiaryEntries has returned for a page on which no strategy
\* found a current page, it reports no error and hands back the entries of the
\* page with the Pagination of a single page, so that StreamDiary emits them and
\* ends with nil.
C26_DiarySinglePageFallback ==
    (pentry = "diary" /\ ppc = "done" /\ DetectionFailed) =>
        /\ perr = "nil"
        /\ pitems >= 0
        /\ pag # NilP /\ pag.TotalPages = 1

-----------------------------------------------------------------------------
\* The guard semaphore of EnhanceFilmList (checked under SpecEnhanceList).

\* C27: the slots of guard that are held are those of the goroutines inside
\* their EnhanceFilm call, never fewer than 0 nor more than 5; a goroutine whose
\* EnhanceFilm has returned, with or without an error, holds none, and none is
\* held when EnhanceFilmList returns.
C27_GuardReleased ==
    /\ guard \in 0..GuardSize
    /\ guard = Cardinality(InLookup)
    /\ epc = "returned" => guard = 0

\* EnhanceFilmList has returned on MaxFilms films that were all looked up, one
\* of the lookups having failed.
C27_Witness ==
    /\ epc = "returned" /\ guard = 0
    /\ Len(films) = MaxFilms
    /\ \E i \in 1..Len(films) : eres[i] = "err" /\ lookups[i] = 1
    /\ \A i \in 1..Len(films) : lookups[i] = 1

-----------------------------------------------------------------------------
\* The page-list strategy (checked under SpecCalls), the heading strategy
\* (checked under SpecPagination) and the next / previous links (checked under
\* SpecCalls).

\* The numbers of the li elements that carry a page number.
PageNumbers(lis) ==
    {lis[i].n : i \in {j \in 1..Len(lis) :
                          (lis[j].page \/ lis[j].cur) /\ lis[j].text = "number"}}

SetMax(S) == CHOOSE x \in S : \A y \in S : y <= x

\* C28: when the page-list strategy yields a Pagination, its CurrentPage is the
\* number of an element marked current and its TotalPages is the largest number
\* among the page-number elements, in whatever order they stand; an ellipsis
\* counts for nothing.
C28_TotalPagesIsMaximum ==
    (Called("paginationFromDivPaginatePages") /\ fres.err = "nil") =>
        /\ \E i \in 1..Len(farg.lis) :
              /\ farg.lis[i].cur /\ farg.lis[i].text = "number"
              /\ fres.p.CurrentPage = farg.lis[i].n
        /\ fres.p.TotalPages = SetMax(PageNumbers(farg.lis))

\* The heading strategy gave the Pagination that was handed out.
ByHeading ==
    /\ Handed /\ perr = "nil"
    /\ pcons # <<>>
    /\ pcons[Len(pcons)].by = "heading" /\ pcons[Len(pcons)].cur # 0

\* C29: in a Pagination of the heading strategy that announces n >= 1 items,
\* TotalPages is n divided by the page size 72, rounded up.
C29_TotalPagesRoundedUp ==
    (ByHeading /\ pag.TotalItems >= 1) =>
        pag.TotalPages = (pag.TotalItems + ItemsPerPage - 1) \div ItemsPerPage

\* The href is one url.Parse reads and its path ends in a number, followed by
\* at most one slash.
EndsInPage(h) ==
    /\ h.segs # <<>>
    /\ h.segs[Len(h.segs)].t = "number"
    /\ h.slashes <= 1

\* C30: parseDivPaginationNext / parseDivPaginationPrevious on a link with the
\* text Next / Previous: without an href, or with an href that does not end in a
\* page number, the call returns and the Pagination is what it was; with an
\* href that ends in page number n, with or without a trailing slash, Next sets
\* CurrentPage to n - 1 and NextPage to n if it was 0, Previous sets CurrentPage
\* to n + 1, and nothing else changes.
C30_DivLinks ==
    \A f \in {"parseDivPaginationNext", "parseDivPaginationPrevious"} :
        (Called(f) /\ farg.a.exists
           /\ farg.a.text = (IF f = "parseDivPaginationNext" THEN "Next" ELSE "Previous")) =>
            LET h == farg.a.href
                n == h.segs[Len(h.segs)].n
            IN IF ~farg.a.hasHref \/ ~EndsInPage(h)
               THEN ~fres.panicked /\ fres.p = farg.p
               ELSE /\ ~fres.panicked
                    /\ fres.p =
                         IF f = "parseDivPaginationNext"
                         THEN [farg.p EXCEPT !.CurrentPage = n - 1,
                                             !.NextPage = IF @ = 0 THEN n ELSE @]
                         ELSE [farg.p EXCEPT !.CurrentPage = n + 1]

-----------------------------------------------------------------------------
\* Diary reading StreamDiary and GetWatchedIMDBIDs reading StreamWatched.

\* go u.StreamDiary(ctx, username, c, dc) / go StreamWatched(..., wfilmC, wdoneC),
\* the caller entering its select loop.
InitResend ==
    /\ limit = maxPages
    /\ consumer = "resend"
    /\ StartOfStream

SpecResend == InitResend /\ [][Next]_vars

\* Every goroutine that can take a step eventually takes one.
FairSpecResend == SpecResend /\ WF_vars(Next)

\* C31: once the stream has sent a terminal signal, nil or an error, Diary /
\* GetWatchedIMDBIDs eventually returns.
C31_CallerReturns == (Dones(log) # <<>>) ~> (cons = "returned")

-----------------------------------------------------------------------------
\* The sub-streams of StreamBatch at its end (checked under SpecBatch).

\* C32: when StreamBatch has sent its final nil, no sub-stream it started was
\* left behind by loopFilmC, and the collector and the middle-page goroutines
\* of the last sub-stream have ended.
C32_NoSubStreamLeftBehind ==
    (bpc = "returned") =>
        /\ orphans = 0
        /\ cpc \in {"none", "returned"}
        /\ \A p \in MiddlePages : mpc[p] \in {"none", "done"}

-----------------------------------------------------------------------------
\* The middle-page goroutines of a collector stream, each inside its
\* ExtractEnhancedFilmsWithPath: the page request, then EnhanceFilmList on the
\* films of the page with the guard that call makes for itself.
\*   pcalls[p].pc        "fetch", "failed", "enhance" or "returned"
\*   pcalls[p].waiting   goroutines of the call that have not taken a guard slot
\*   pcalls[p].inflight  goroutines of the call inside f.Get, holding a slot

pageVars == <<streamVars, consVars, batchVars, limit, crashed, produced, enhVars,
              pagVars, fnVars, frame>>

\* films, pagination, err := f.ExtractFilmsWithPath(ctx, path)
MPageFetch(p) ==
    /\ pcalls[p].pc = "fetch"
    /\ \/ pcalls' = [pcalls EXCEPT ![p].pc = "failed"]
       \/ \E n \in 0..MaxFilms :
             pcalls' = [pcalls EXCEPT ![p].pc = "enhance", ![p].waiting = n]
    /\ UNCHANGED pageVars

\* guard <- struct{}{} on the guard of this call, then f.EnhanceFilm calls f.Get
MLookupStart(p) ==
    /\ pcalls[p].pc = "enhance"
    /\ pcalls[p].waiting > 0
    /\ pcalls[p].inflight < GuardSize
    /\ pcalls' = [pcalls EXCEPT ![p].waiting = @ - 1, ![p].inflight = @ + 1]
    /\ UNCHANGED pageVars

\* f.Get returns; <-guard; wg.Done()
MLookupEnd(p) ==
    /\ pcalls[p].pc = "enhance"
    /\ pcalls[p].inflight > 0
    /\ pcalls' = [pcalls EXCEPT ![p].inflight = @ - 1]
    /\ UNCHANGED pageVars

\* wg.Wait(); return nil, and ExtractEnhancedFilmsWithPath returns the films
MEnhanceReturn(p) ==
    /\ pcalls[p].pc = "enhance"
    /\ pcalls[p].waiting = 0 /\ pcalls[p].inflight = 0
    /\ pcalls' = [pcalls EXCEPT ![p].pc = "returned"]
    /\ UNCHANGED pageVars

\* StreamWatched has started the goroutines of its middle pages.
InitPageEnhance ==
    /\ CollectorOff
    /\ EnhOff
    /\ PagOff
    /\ FnOff
    /\ frame = NoFrame
    /\ pcalls = [p \in MiddlePages |-> [pc |-> "fetch", waiting |-> 0, inflight |-> 0]]

NextPageEnhance ==
    \/ \E p \in MiddlePages : MPageFetch(p)
    \/ \E p \in MiddlePages : MLookupStart(p)
    \/ \E p \in MiddlePages : MLookupEnd(p)
    \/ \E p \in MiddlePages : MEnhanceReturn(p)

SpecPageEnhance == InitPageEnhance /\ [][NextPageEnhance]_vars

RECURSIVE LookupsInFlight(_)
\* The lookups in flight in the calls of pages 2..n.
LookupsInFlight(n) == IF n < 2 THEN 0 ELSE pcalls[n].inflight + LookupsInFlight(n - 1)

\* C33: across all middle pages that are fetched at the same time, at most 5
\* EnhanceFilm lookups are in flight.
C33_AtMostFiveLookupsInStream == LookupsInFlight(MaxPages - 1) <= 5

-----------------------------------------------------------------------------
\* SlurpFilms reading a collector stream (checked under SpecFilms).

\* C34: while SlurpFilms runs it holds the items the stream has sent, in the
\* order they were sent; when it has returned on nil it returns exactly those
\* items with a nil error, and when it has returned on an error it returns the
\* error and no items.
C34_SlurpLosesNothing ==
    /\ cons = "running" => (ret = Items(log) /\ retErr = "none")
    /\ cons = "returned" =>
          /\ retErr \in {"nil", "err"}
          /\ retErr = "nil" => (ret = Items(log) /\ log[Len(log)] = Done("nil"))
          /\ retErr = "err" => ret = <<>>

\* SlurpFilms returned the error of the last page after it had received the
\* items of page 1.
C34_Witness ==
    /\ cons = "returned" /\ retErr = "err"
    /\ Len(Items(log)) = MaxItems
    /\ ret = <<>>

-----------------------------------------------------------------------------
\* EnhanceFilm applied twice (checked under SpecCalls).

\* C35: for every film and every lookup result, the film after a second
\* EnhanceFilm with the same lookup result is the film after the first.
C35_EnhanceFilmIdempotent ==
    Called("EnhanceFilm") => fres.twice.film = fres.once.film

\* The first call filled the year of a film that had only a slug and a title;
\* the second call found nothing left to fill.
C35_Witness ==
    /\ Called("EnhanceFilm")
    /\ fres.once.err = "nil" /\ fres.twice.err = "nil"
    /\ farg.film["Year"] = 0 /\ farg.film["Title"] = 1
    /\ fres.once.film["Year"] = 2 /\ fres.once.film["Title"] = 1
    /\ fres.twice.film = fres.once.film

-----------------------------------------------------------------------------
\* FilmServiceOp.List and UserServiceOp.WatchList: farg holds the arguments of
\* the call, frame its local variables while it runs, fres what it returned.
\*   frame.requested   the page numbers requested so far, in order
\*   frame.outcomes    List: "ok" / "err" for each request
\*                     WatchList: "more" / "last" / "nomarkup" / "err"

MaxPageCount == 3

loopVars == <<streamVars, consVars, batchVars, limit, crashed, produced, enhVars,
              pagVars, farg, pcalls>>

\* func max(values ...int) (max int), for two values
max(a, b) == IF b > a THEN b ELSE a

\* func makeRange(min, max int) []int
makeRange(lo, hi) == [i \in 1..(hi - lo + 1) |-> lo + i - 1]

\* func populateRemainingPages(count, total int, shuffle bool) []int: the slices
\* it can return; with shuffle each of the count+1 elements is
\* rand.Intn(total-2+1)+2.
populateRemainingPages(count, total, shuffle) ==
    IF shuffle
    THEN [1..(count + 1) -> 2..total]
    ELSE {makeRange(2, count + 1)}

\* List: pageCount := max(opts.PageCount, 1); page 1 is requested;
\* if (pageCount > 1) && (pagination.TotalPages > 1) { remainingPages := ... }
ListFirst ==
    /\ farg.fn = "List" /\ frame.pc = "first"
    /\ LET pageCount == max(farg.PageCount, 1) IN
       \/ \* if err != nil { return nil, err }
          /\ frame' = [frame EXCEPT !.pc = "done", !.requested = <<1>>,
                                    !.outcomes = <<"err">>]
          /\ fres' = [fn |-> "List", pages |-> <<>>, err |-> "err"]
       \/ \E t \in 1..MaxPages :
             IF pageCount > 1 /\ t > 1
             THEN \E rp \in populateRemainingPages(pageCount, t, farg.ShufflePages) :
                     /\ frame' = [frame EXCEPT !.pc = "loop", !.total = t,
                                               !.requested = <<1>>, !.outcomes = <<"ok">>,
                                               !.remainingPages = rp, !.i = 1]
                     /\ UNCHANGED fres
             ELSE /\ frame' = [frame EXCEPT !.pc = "done", !.total = t,
                                            !.requested = <<1>>, !.outcomes = <<"ok">>]
                  /\ fres' = [fn |-> "List", pages |-> <<1>>, err |-> "nil"]
    /\ UNCHANGED loopVars

\* List: one turn of `for _, p := range remainingPages`, or its end
ListNext ==
    /\ farg.fn = "List" /\ frame.pc = "loop"
    /\ IF frame.i > Len(frame.remainingPages)
       THEN \* return allFilms, nil
            /\ frame' = [frame EXCEPT !.pc = "done"]
            /\ fres' = [fn |-> "List", pages |-> frame.requested, err |-> "nil"]
       ELSE LET p == frame.remainingPages[frame.i] IN
            \/ \* if err != nil { return nil, err }
               /\ frame' = [frame EXCEPT !.pc = "done",
                                         !.requested = Append(@, p),
                                         !.outcomes = Append(@, "err")]
               /\ fres' = [fn |-> "List", pages |-> <<>>, err |-> "err"]
            \/ \* allFilms = append(allFilms, films...)
               /\ frame' = [frame EXCEPT !.requested = Append(@, p),
                                         !.outcomes = Append(@, "ok"),
                                         !.i = @ + 1]
               /\ UNCHANGED fres
    /\ UNCHANGED loopVars

\* The li elements of div.paginate-pages on page j of a watchlist of k pages:
\* <li class="paginate-page">n</li>, the j-th also "paginate-current".
WatchListLis(j, k) ==
    [n \in 1..k |-> [cur |-> n = j, page |-> TRUE, text |-> "number", n |-> n]]

\* The Pagination ExtractUserFilms returns for page j of a watchlist of k pages:
\* the detector's when the page has pagination markup, the single-page
\* fallback when it has none.
WatchListPagination(j, k, markup) ==
    LET r == paginationIfCurrent(paginationFromDivPaginatePages(WatchListLis(j, k))) IN
    IF markup /\ r.err = "nil" THEN complete(r.p) ELSE SinglePage

\* Variant: on a fetch error WatchList returns the films it has collected.
WatchListFetchMut ==
    /\ farg.fn = "WatchList" /\ frame.pc = "loop"
    /\ LET page == frame.page IN
       \/ /\ frame' = [frame EXCEPT !.pc = "done", !.requested = Append(@, page),
                                    !.outcomes = Append(@, "err")]
          /\ fres' = [fn |-> "WatchList", pages |-> frame.previews, err |-> "err"]
       \/ \E markup \in BOOLEAN :
             LET pagination == WatchListPagination(page, farg.k, markup)
                 outcome == IF ~markup THEN "nomarkup"
                            ELSE IF pagination.IsLast THEN "last" ELSE "more"
                 previews == Append(frame.previews, page)
             IN IF pagination.IsLast
                THEN /\ frame' = [frame EXCEPT !.pc = "done", !.previews = previews,
                                               !.requested = Append(@, page),
                                               !.outcomes = Append(@, outcome)]
                     /\ fres' = [fn |-> "WatchList", pages |-> previews, err |-> "nil"]
                ELSE /\ frame' = [frame EXCEPT !.page = page + 1, !.previews = previews,
                                               !.requested = Append(@, page),
                                               !.outcomes = Append(@, outcome)]
                     /\ UNCHANGED fres
    /\ UNCHANGED loopVars

\* WatchList: one turn of its `for` loop: sendRequest(req, ExtractUserFilms);
\* if err != nil { return nil, resp, err }; EnhanceFilmList; previews = append(...);
\* if items.Pagination.IsLast { break }; page++
WatchListFetch ==
    /\ farg.fn = "WatchList" /\ frame.pc = "loop"
    /\ LET page == frame.page IN
       \/ /\ frame' = [frame EXCEPT !.pc = "done", !.requested = Append(@, page),
                                    !.outcomes = Append(@, "err")]
          /\ fres' = [fn |-> "WatchList", pages |-> <<>>, err |-> "err"]
       \/ \E markup \in BOOLEAN :
             LET pagination == WatchListPagination(page, farg.k, markup)
                 outcome == IF ~markup THEN "nomarkup"
                            ELSE IF pagination.IsLast THEN "last" ELSE "more"
                 previews == Append(frame.previews, page)
             IN IF pagination.IsLast
                THEN /\ frame' = [frame EXCEPT !.pc = "done", !.previews = previews,
                                               !.requested = Append(@, page),
                                               !.outcomes = Append(@, outcome)]
                     /\ fres' = [fn |-> "WatchList", pages |-> previews, err |-> "nil"]
                ELSE /\ frame' = [frame EXCEPT !.page = page + 1, !.previews = previews,
                                               !.requested = Append(@, page),
                                               !.outcomes = Append(@, outcome)]
                     /\ UNCHANGED fres
    /\ UNCHANGED loopVars

\* List(ctx, opts) or WatchList(ctx, userID) is called; the watchlist has k pages.
InitLoops ==
    /\ CollectorOff
    /\ EnhOff
    /\ PagOff
    /\ pcalls = <<>>
    /\ fres = NoRes
    /\ \/ /\ \E c \in 0..MaxPageCount, sh \in BOOLEAN :
                farg = [fn |-> "List", PageCount |-> c, ShufflePages |-> sh]
          /\ frame = [pc |-> "first", total |-> 0, requested |-> <<>>, outcomes |-> <<>>,
                      remainingPages |-> <<>>, i |-> 0]
       \/ /\ \E k \in 1..MaxPages : farg = [fn |-> "WatchList", k |-> k]
          /\ frame = [pc |-> "loop", page |-> 1, requested |-> <<>>, outcomes |-> <<>>,
                      previews |-> <<>>]

NextLoops ==
    \/ ListFirst
    \/ ListNext
    \/ WatchListFetch

SpecLoops == InitLoops /\ [][NextLoops]_vars

\* A call that can take a step eventually takes it.
FairSpecLoops == SpecLoops /\ WF_vars(NextLoops)

\* C36: List without shuffling requests no page number above the TotalPages
\* that page 1 reported, and with PageCount <= 1 it requests page 1 only.
C36_ListWithinTotalPages ==
    (farg.fn = "List" /\ ~farg.ShufflePages) =>
        /\ \A n \in 1..Len(frame.requested) :
              frame.requested[n] = 1 \/ frame.requested[n] <= frame.total
        /\ farg.PageCount <= 1 =>
              (frame.pc = "done" => frame.requested = <<1>>)

\* The requests WatchList has made so far are 1, 2, 3, ... with only the last
\* one ending the loop, and its result matches the outcome of that request.
WatchListInOrder ==
    farg.fn = "WatchList" =>
        /\ frame.requested = makeRange(1, Len(frame.requested))
        /\ Len(frame.requested) <= farg.k
        /\ \A n \in 1..(Len(frame.requested) - 1) : frame.outcomes[n] = "more"
        /\ frame.pc = "loop" =>
              (fres = NoRes /\ \A n \in 1..Len(frame.outcomes) : frame.outcomes[n] = "more")
        /\ frame.pc = "done" =>
              LET n == Len(frame.requested) IN
              /\ n >= 1
              /\ frame.outcomes[n] \in {"last", "nomarkup", "err"}
              /\ frame.outcomes[n] = "last" => n = farg.k
              /\ IF frame.outcomes[n] = "err"
                 THEN fres.err = "err" /\ fres.pages = <<>>
                 ELSE fres.err = "nil" /\ fres.pages = frame.requested

====
